---- MODULE Spec2Model ----
(***************************************************************************)
(* A model of the linkedin-scraper package: the normalized graph resolver  *)
(* (parseProfileFromAPIResponse and its helpers), the Flexible Text        *)
(* decoder (FlexibleText.UnmarshalJSON) and the query encoder              *)
(* (SearchProfiles' argument construction and buildGraphQLURL).            *)
(*                                                                         *)
(* Go strings are TLA+ strings; a Go pointer is a sequence of length 0     *)
(* (nil) or 1 (a pointer to its element); a Go slice is a sequence; a Go   *)
(* error is the sequence of messages of its chain, << >> being nil. Where  *)
(* the code writes through a pointer, the element is the address of the    *)
(* object in the memory the call works in, and reads and writes go through *)
(* Load and Assign.                                                        *)
(***************************************************************************)
EXTENDS Integers, Sequences, FiniteSets, TLC

VARIABLES
    apiResponse,       \* the decoded ProfileAPIResponse the resolve calls read
    publicIdentifier,  \* the requested identifier
    calls,             \* call -> the entry point it ran ("none" before) and its outcome
    heap,              \* the LinkedInProfile objects the resolve calls have allocated
    apiCall,           \* the call made on the client: its inputs, the reply, what it returned
    procs,             \* concurrent caller -> its call: input, position, result
    frames             \* the locals and allocations of each concurrent call

resolverVars == <<apiResponse, publicIdentifier, calls, heap>>

concurrentVars == <<procs, frames>>

vars == <<resolverVars, apiCall, concurrentVars>>

(***************************************************************************)
(* Bounds.                                                                 *)
(***************************************************************************)
MaxIncluded == 3

\* The longest included array of a response body, the longest list of network
\* filters, and the largest paging offset.
MaxBodyIncluded == 2

MaxFilters == 2

MaxStart == 1

\* The independent calls of each entry point.
Calls == {1, 2}

(***************************************************************************)
(* Pointers, errors, strings.                                              *)
(***************************************************************************)
Nil == << >>

Ptr(v) == <<v>>

Deref(p) == p[1]

\* The byte 0x00 (^@ in caret notation), which a string literal of this
\* module cannot hold: "@" stands for it and is used for nothing else.
NUL == "@"

\* unicode.IsSpace on the characters the model's strings are made of.
IsSpace(c) == c \in {" ", "\t", "\n", "\r", "\f"}

RECURSIVE TrimLeft(_)
TrimLeft(s) ==
    IF Len(s) > 0 /\ IsSpace(SubSeq(s, 1, 1))
    THEN TrimLeft(SubSeq(s, 2, Len(s)))
    ELSE s

RECURSIVE TrimRight(_)
TrimRight(s) ==
    IF Len(s) > 0 /\ IsSpace(SubSeq(s, Len(s), Len(s)))
    THEN TrimRight(SubSeq(s, 1, Len(s) - 1))
    ELSE s

\* strings.TrimSpace
TrimSpace(s) == TrimRight(TrimLeft(s))

\* strings.ReplaceAll(s, old, "") for a one-character old.
RECURSIVE RemoveAll(_, _)
RemoveAll(s, old) ==
    IF Len(s) = 0 THEN ""
    ELSE IF SubSeq(s, 1, 1) = old
         THEN RemoveAll(SubSeq(s, 2, Len(s)), old)
         ELSE SubSeq(s, 1, 1) \o RemoveAll(SubSeq(s, 2, Len(s)), old)

\* strings.Contains
Contains(s, sub) ==
    \E i \in 1..(Len(s) - Len(sub) + 1) : SubSeq(s, i, i + Len(sub) - 1) = sub

(***************************************************************************)
(* Type discriminators.                                                    *)
(***************************************************************************)
EntityTypeProfile == "com.linkedin.voyager.dash.identity.profile.Profile"

EntityTypePosition == "com.linkedin.voyager.dash.identity.profile.Position"

EntityTypeEducation == "com.linkedin.voyager.dash.identity.profile.Education"

EntityTypeEndorsedSkill == "EndorsedSkill"

EntityTypeEntityResult == "com.linkedin.voyager.dash.search.EntityResultViewModel"

(***************************************************************************)
(* GenericIncludedElement: one record shape for every included entity.     *)
(***************************************************************************)
ZeroElement ==
    [Type |-> "", EntityURN |-> "", TrackingURN |-> "",
     Title |-> Nil, PrimarySubtitle |-> Nil, SecondarySubtitle |-> Nil,
     NavigationURL |-> "", BadgeText |-> Nil,
     PublicIdentifier |-> "", FirstName |-> "", LastName |-> "", Headline |-> "",
     CompanyName |-> "", CompanyURN |-> "", Description |-> "",
     DateRange |-> Nil, LocationName |-> "",
     SchoolName |-> "", SchoolURN |-> "", DegreeName |-> "",
     FieldOfStudy |-> "", Activities |-> "",
     Name |-> "", EndorsementCount |-> 0, EndorsedByViewer |-> FALSE,
     TrackingId |-> ""]

\* A DateResponse. A slice is its length and the slots its backing array
\* has held so far: the slots past the length keep what was decoded into
\* them, and a slot the array never held is zero.
DateResponse(y, m, d) ==
    [Year |-> y, Month |-> m, Day |-> d,
     RecipeTypes |-> [len |-> 0, array |-> << >>], Type |-> ""]

ProfileElement(urn, id, first, last, headline) ==
    [ZeroElement EXCEPT !.Type = EntityTypeProfile, !.EntityURN = urn,
                        !.PublicIdentifier = id, !.FirstName = first,
                        !.LastName = last, !.Headline = headline]

PositionElement(urn, title, company, range) ==
    [ZeroElement EXCEPT !.Type = EntityTypePosition, !.EntityURN = urn,
                        !.Title = title, !.CompanyName = company,
                        !.DateRange = range]

EducationElement(urn, school, degree, range) ==
    [ZeroElement EXCEPT !.Type = EntityTypeEducation, !.EntityURN = urn,
                        !.SchoolName = school, !.DegreeName = degree,
                        !.DateRange = range]

SkillElement(type, urn, name, count) ==
    [ZeroElement EXCEPT !.Type = type, !.EntityURN = urn,
                        !.Name = name, !.EndorsementCount = count]

\* The entities a payload of the model is made of.
EntityPool ==
    { ProfileElement("urn:li:fsd_profile:1", "jane-doe", "Jane", "Doe", "Engineer"),
      ProfileElement("urn:li:fsd_profile:2", "john", " John ", "Roe@ ", " CEO"),
      ProfileElement("urn:li:fsd_profile:1", "", "So@lo", "Solo", ""),
      PositionElement("urn:li:fsd_profilePosition:1", Ptr("Engineer"), "Acme",
                      Ptr([Start |-> Ptr(DateResponse(2020, 1, 0)), End |-> Nil,
                           RecipeTypes |-> [len |-> 0, array |-> << >>],
                           Type |-> ""])),
      PositionElement("urn:li:fsd_profilePosition:2", Nil, "Initech", Nil),
      EducationElement("urn:li:fsd_profileEducation:1", "MIT", "BSc",
                       Ptr([Start |-> Nil, End |-> Ptr(DateResponse(2019, 6, 1)),
                           RecipeTypes |-> [len |-> 0, array |-> << >>],
                           Type |-> ""])),
      SkillElement("com.linkedin.voyager.dash.identity.profile.EndorsedSkill",
                   "urn:li:fsd_skill:1", "Go", 3),
      [ZeroElement EXCEPT !.Type = EntityTypeEntityResult,
                          !.EntityURN = "urn:li:fsd_entityResultViewModel:1",
                          !.TrackingURN = "urn:li:fsd_profile:1",
                          !.PublicIdentifier = "jane-doe",
                          !.Title = Ptr("Jane Doe")] }

SeqsUpTo(S, n) == UNION { [1..k -> S] : k \in 0..n }

(***************************************************************************)
(* The resolved domain entity.                                             *)
(***************************************************************************)
ZeroProfile ==
    [PublicIdentifier |-> "", URN |-> "", FullName |-> "", Headline |-> "",
     Location |-> "", ProfileURL |-> "",
     FirstName |-> "", LastName |-> "", Summary |-> "", Industry |-> "",
     LocationDetails |-> Nil,
     Experience |-> << >>, Education |-> << >>, Skills |-> << >>,
     Certifications |-> << >>,
     ProfilePicture |-> Nil, BackgroundImageURL |-> "",
     ConnectionInfo |-> Nil,
     IsVerified |-> FALSE, IsCreator |-> FALSE, IsPremium |-> FALSE,
     IsMemorialized |-> FALSE, TempStatus |-> "", TempStatusEmoji |-> "",
     CreatorWebsite |-> ""]

\* The copy of a *DateRangeResponse into a *DateRange.
CopyDate(date) ==
    IF date = Nil THEN Nil
    ELSE Ptr([Year |-> Deref(date).Year, Month |-> Deref(date).Month,
              Day |-> Deref(date).Day])

CopyDateRange(range) ==
    IF range = Nil THEN Nil
    ELSE Ptr([Start |-> CopyDate(Deref(range).Start),
              End   |-> CopyDate(Deref(range).End)])

ExperienceOf(item) ==
    [EntityURN |-> item.EntityURN, CompanyName |-> item.CompanyName,
     CompanyURN |-> item.CompanyURN,
     Title |-> IF item.Title # Nil THEN Deref(item.Title) ELSE "",
     Description |-> item.Description,
     DateRange |-> CopyDateRange(item.DateRange),
     LocationName |-> item.LocationName]

\* parseExperienceData: the loop over included from index i on.
RECURSIVE ParseExperienceFrom(_, _, _)
ParseExperienceFrom(included, i, experiences) ==
    IF i > Len(included) THEN experiences
    ELSE ParseExperienceFrom(included, i + 1,
            IF included[i].Type = EntityTypePosition
            THEN Append(experiences, ExperienceOf(included[i]))
            ELSE experiences)

\* A variant that attaches only the positions whose URN ends as profileURN
\* ends, the positions of that profile.
parseExperienceData_OwnedOnly(response, profileURN) ==
    LET Owned(e) == SubSeq(e.EntityURN, Len(e.EntityURN), Len(e.EntityURN))
                        = SubSeq(profileURN, Len(profileURN), Len(profileURN))
    IN  SelectSeq(ParseExperienceFrom(response.Included, 1, << >>), Owned)

\* A variant that returns the positions last first.
parseExperienceData_Reversed(response, profileURN) ==
    LET experiences == ParseExperienceFrom(response.Included, 1, << >>)
    IN  [k \in 1..Len(experiences) |-> experiences[Len(experiences) + 1 - k]]

parseExperienceData(response, profileURN) ==
    ParseExperienceFrom(response.Included, 1, << >>)

EducationOf(item) ==
    [EntityURN |-> item.EntityURN, SchoolName |-> item.SchoolName,
     SchoolURN |-> item.SchoolURN, DegreeName |-> item.DegreeName,
     FieldOfStudy |-> item.FieldOfStudy,
     DateRange |-> CopyDateRange(item.DateRange),
     Description |-> item.Description, Activities |-> item.Activities]

RECURSIVE ParseEducationFrom(_, _, _)
ParseEducationFrom(included, i, education) ==
    IF i > Len(included) THEN education
    ELSE ParseEducationFrom(included, i + 1,
            IF included[i].Type = EntityTypeEducation
            THEN Append(education, EducationOf(included[i]))
            ELSE education)

parseEducationData(response, profileURN) ==
    ParseEducationFrom(response.Included, 1, << >>)

SkillOf(item) ==
    [EntityURN |-> item.EntityURN, Name |-> item.Name,
     EndorsementCount |-> item.EndorsementCount,
     EndorsedByViewer |-> item.EndorsedByViewer]

RECURSIVE ParseSkillsFrom(_, _, _)
ParseSkillsFrom(included, i, skills) ==
    IF i > Len(included) THEN skills
    ELSE ParseSkillsFrom(included, i + 1,
            IF Contains(included[i].Type, EntityTypeEndorsedSkill)
            THEN Append(skills, SkillOf(included[i]))
            ELSE skills)

parseSkillsData(response, profileURN) ==
    ParseSkillsFrom(response.Included, 1, << >>)

\* The first index from i on of a Profile entity whose EntityURN is profileURN,
\* 0 when there is none: the scan of parseLocationData and
\* parseProfilePictureData, which return at the first match.
RECURSIVE ProfileIndexByURNFrom(_, _, _)
ProfileIndexByURNFrom(included, i, profileURN) ==
    IF i > Len(included) THEN 0
    ELSE IF included[i].Type = EntityTypeProfile /\ included[i].EntityURN = profileURN
    THEN i
    ELSE ProfileIndexByURNFrom(included, i + 1, profileURN)

\* extractCountryCode and extractProfileImageURN are placeholders returning "".
parseLocationData(response, profileURN) ==
    LET i == ProfileIndexByURNFrom(response.Included, 1, profileURN)
    IN  IF i = 0 THEN Nil
        ELSE Ptr([CountryCode |-> "", PostalCode |-> "", PreferredGeoPlace |-> ""])

\* parseConnectionCount and parseFollowerCount always fail, so no count is set.
parseConnectionData(response, profileURN) ==
    Ptr([ConnectionCount |-> 0, FollowerCount |-> 0, FollowingCount |-> 0,
         Following |-> FALSE])

parseProfilePictureData(response, profileURN) ==
    LET i == ProfileIndexByURNFrom(response.Included, 1, profileURN)
    IN  IF i = 0 THEN Nil
        ELSE Ptr([DisplayImageUrn |-> "", PhotoFilterPicture |-> "", RootURL |-> "",
                  A11yText |-> response.Included[i].FirstName \o " "
                               \o response.Included[i].LastName])

\* The outcome of a call: the returned pointer and the returned error.
Outcome(profile, err) == [profile |-> profile, err |-> err]

\* The anchor scan of parseProfileFromAPIResponse: the first index from i on
\* of a Profile entity whose PublicIdentifier is id, 0 when there is none.
RECURSIVE AnchorIndexFrom(_, _, _)
AnchorIndexFrom(included, i, id) ==
    IF i > Len(included) THEN 0
    ELSE IF included[i].Type = EntityTypeProfile /\ included[i].PublicIdentifier = id
    THEN i
    ELSE AnchorIndexFrom(included, i + 1, id)

\* A variant that takes the first Profile entity whatever its identifier.
AnchorIndex_FirstProfile(response, id) ==
    LET S == { i \in DOMAIN response.Included :
                 response.Included[i].Type = EntityTypeProfile }
    IN  IF S = {} THEN 0 ELSE CHOOSE i \in S : \A j \in S : i <= j

AnchorIndex(response, id) == AnchorIndexFrom(response.Included, 1, id)

\* A variant that joins the names without the space.
FullNameOf_NoSeparator(first, last) == TrimSpace(first \o last)

\* profile.FullName = strings.TrimSpace(profile.FirstName + " " + profile.LastName)
FullNameOf(first, last) == TrimSpace(first \o " " \o last)

\* The memory a resolve call works in: Included, the entities of the payload
\* apiResponse points at, and Heap, the LinkedInProfile objects allocated so
\* far. A pointer into it is nil or the address of an object: its region and
\* its index there.
Memory(response, objects) == [Included |-> response.Included, Heap |-> objects]

\* *p
Load(mem, p) == mem[Deref(p).region][Deref(p).i]

\* p.field = value
Assign(mem, p, field, value) ==
    [mem EXCEPT ![Deref(p).region][Deref(p).i][field] = value]

\* What the caller of a resolve call holds when the call has returned r: the
\* profile as it reads it through the returned pointer, and the error.
OutcomeOf(r) ==
    Outcome(IF r.profile = Nil THEN Nil ELSE Ptr(Load(r.mem, r.profile)), r.err)

\* parseProfileFromAPIResponse: the memory as the call leaves it, the returned
\* pointer and the error. profileEntity points into the payload; profile
\* points at the object the composite literal allocates, and each statement
\* after it is a store through profile. parseSimpleProfileFields reads
\* through extractFieldFromRawJSON, a placeholder that finds no field: it
\* stores nothing.
parseProfileFromAPIResponse(mem, id) ==
    LET i == AnchorIndex(mem, id) IN
    IF i = 0
    THEN [mem |-> mem, profile |-> Nil,
          err |-> <<"profile not found in API response for publicIdentifier: " \o id>>]
    ELSE LET profileEntity == Ptr([region |-> "Included", i |-> i])
             profile == Ptr([region |-> "Heap", i |-> Len(mem.Heap) + 1])
             URN(m) == Load(m, profileEntity).EntityURN
             FullName(m) ==
                Assign(m, profile, "FullName",
                       FullNameOf(Load(m, profile).FirstName, Load(m, profile).LastName))
             Experience(m) ==
                Assign(m, profile, "Experience", parseExperienceData(m, URN(m)))
             Education(m) ==
                Assign(m, profile, "Education", parseEducationData(m, URN(m)))
             Skills(m) ==
                Assign(m, profile, "Skills", parseSkillsData(m, URN(m)))
             LocationDetails(m) ==
                Assign(m, profile, "LocationDetails", parseLocationData(m, URN(m)))
             ConnectionInfo(m) ==
                Assign(m, profile, "ConnectionInfo", parseConnectionData(m, URN(m)))
             ProfilePicture(m) ==
                Assign(m, profile, "ProfilePicture", parseProfilePictureData(m, URN(m)))
             Stored(allocated) ==
                ProfilePicture(ConnectionInfo(LocationDetails(Skills(Education(
                    Experience(FullName(allocated)))))))
         IN  [mem |-> Stored([mem EXCEPT !.Heap = Append(@,
                        [ZeroProfile EXCEPT
                            !.PublicIdentifier = Load(mem, profileEntity).PublicIdentifier,
                            !.URN = Load(mem, profileEntity).EntityURN,
                            !.FirstName = Load(mem, profileEntity).FirstName,
                            !.LastName = Load(mem, profileEntity).LastName,
                            !.Headline = Load(mem, profileEntity).Headline,
                            !.ProfileURL = "https://www.linkedin.com/in/" \o id \o "/"])]),
              profile |-> profile, err |-> Nil]

\* sanitizeTextString
sanitizeTextString(s) == TrimSpace(RemoveAll(s, NUL))

\* The five stores of validateProfileData through profile.
SanitizeFields(mem, profile) ==
    LET Sanitize(m, field) ==
            Assign(m, profile, field, sanitizeTextString(Load(m, profile)[field]))
    IN  Sanitize(Sanitize(Sanitize(Sanitize(Sanitize(mem,
            "FirstName"), "LastName"), "FullName"), "Headline"), "Summary")

\* A variant that does not require the identifier.
validateProfileData_NoIdentifierCheck(mem, profile) ==
    IF profile = Nil THEN [mem |-> mem, err |-> <<"profile cannot be nil">>]
    ELSE [mem |-> SanitizeFields(mem, profile), err |-> Nil]

\* A variant that sanitises the entity the profile was built from as well.
validateProfileData_SanitizesEntity(mem, profile) ==
    IF profile = Nil THEN [mem |-> mem, err |-> <<"profile cannot be nil">>]
    ELSE IF Load(mem, profile).PublicIdentifier = ""
    THEN [mem |-> mem, err |-> <<"publicIdentifier is required">>]
    ELSE LET i == AnchorIndexFrom(mem.Included, 1, Load(mem, profile).PublicIdentifier)
             entity == Ptr([region |-> "Included", i |-> i])
             Sanitize(m, field) ==
                Assign(m, entity, field, sanitizeTextString(Load(m, entity)[field]))
             Entity(sanitized) ==
                IF i = 0 THEN sanitized
                ELSE Sanitize(Sanitize(Sanitize(sanitized,
                        "FirstName"), "LastName"), "Headline")
         IN  [mem |-> Entity(SanitizeFields(mem, profile)), err |-> Nil]

\* validateProfileData: the memory as the call leaves it, and the error. The
\* call reads and writes only through the pointer it is handed.
validateProfileData(mem, profile) ==
    IF profile = Nil THEN [mem |-> mem, err |-> <<"profile cannot be nil">>]
    ELSE IF Load(mem, profile).PublicIdentifier = ""
    THEN [mem |-> mem, err |-> <<"publicIdentifier is required">>]
    ELSE [mem |-> SanitizeFields(mem, profile), err |-> Nil]

convertAPIResponseToLinkedInProfile(mem, id) ==
    LET \* v is what validateProfileData returned.
        Validated(p, v) ==
            IF v.err # Nil THEN [mem |-> v.mem, profile |-> Nil, err |-> v.err]
            ELSE [mem |-> v.mem, profile |-> p.profile, err |-> Nil]
        \* p is what parseProfileFromAPIResponse returned.
        Parsed(p) ==
            IF p.err # Nil THEN [mem |-> p.mem, profile |-> Nil, err |-> p.err]
            ELSE Validated(p, validateProfileData(p.mem, p.profile))
    IN  Parsed(parseProfileFromAPIResponse(mem, id))

\* GetProfile from the point where json.Unmarshal has decoded the body into
\* the payload of mem.
GetProfileDecoded(mem, id) ==
    LET Converted(c) ==
            IF c.err # Nil
            THEN [mem |-> c.mem, profile |-> Nil,
                  err |-> <<"failed to extract profile from response">> \o c.err]
            ELSE c
    IN  Converted(convertAPIResponseToLinkedInProfile(mem, id))

\* extractPublicIdentifierFromResponse: the identifier of the first Profile
\* entity that has one, "" when there is none.
RECURSIVE ExtractPublicIdentifierFrom(_, _)
ExtractPublicIdentifierFrom(included, i) ==
    IF i > Len(included) THEN ""
    ELSE IF included[i].Type = EntityTypeProfile /\ included[i].PublicIdentifier # ""
    THEN included[i].PublicIdentifier
    ELSE ExtractPublicIdentifierFrom(included, i + 1)

\* A variant that takes the identifier of the first Profile entity, empty or
\* not.
extractPublicIdentifierFromResponse_FirstProfile(response) ==
    LET S == { i \in DOMAIN response.Included :
                 response.Included[i].Type = EntityTypeProfile }
    IN  IF S = {} THEN ""
        ELSE response.Included[CHOOSE i \in S : \A j \in S : i <= j].PublicIdentifier

extractPublicIdentifierFromResponse(response) ==
    ExtractPublicIdentifierFrom(response.Included, 1)

\* ParseFromJSON from the point where json.Unmarshal has decoded jsonData
\* into the payload of mem.
ParseFromJSONDecoded(mem) ==
    LET id == extractPublicIdentifierFromResponse(mem)
        Validated(p, v) ==
            IF v.err # Nil
            THEN [mem |-> v.mem, profile |-> Nil,
                  err |-> <<"profile validation failed">> \o v.err]
            ELSE [mem |-> v.mem, profile |-> p.profile, err |-> Nil]
        Parsed(p) ==
            IF p.err # Nil
            THEN [mem |-> p.mem, profile |-> Nil,
                  err |-> <<"failed to parse profile">> \o p.err]
            ELSE Validated(p, validateProfileData(p.mem, p.profile))
    IN  IF id = ""
        THEN [mem |-> mem, profile |-> Nil,
              err |-> <<"could not extract publicIdentifier from response">>]
        ELSE Parsed(parseProfileFromAPIResponse(mem, id))

(***************************************************************************)
(* JSON values, as encoding/json reads them from the bytes of a body. One  *)
(* record shape: kind is "string", "number", "bool", "null", "array",      *)
(* "object", or "invalid" for bytes that are no JSON text; an object's     *)
(* items are its <<key, value>> members in the order of the text.          *)
(***************************************************************************)
JStr(s) == [kind |-> "string", str |-> s, num |-> 0, items |-> << >>]

JNum(n) == [kind |-> "number", str |-> "", num |-> n, items |-> << >>]

JBool(b) == [kind |-> "bool", str |-> IF b THEN "true" ELSE "false", num |-> 0, items |-> << >>]

JNull == [kind |-> "null", str |-> "", num |-> 0, items |-> << >>]

JArr(items) == [kind |-> "array", str |-> "", num |-> 0, items |-> items]

JObj(members) == [kind |-> "object", str |-> "", num |-> 0, items |-> members]

JInvalid == [kind |-> "invalid", str |-> "", num |-> 0, items |-> << >>]

UpperLetters == "ABCDEFGHIJKLMNOPQRSTUVWXYZ"

LowerChar(c) ==
    IF \E i \in 1..Len(UpperLetters) : SubSeq(UpperLetters, i, i) = c
    THEN LET i == CHOOSE j \in 1..Len(UpperLetters) : SubSeq(UpperLetters, j, j) = c
         IN  SubSeq("abcdefghijklmnopqrstuvwxyz", i, i)
    ELSE c

RECURSIVE ToLower(_)
ToLower(s) ==
    IF Len(s) = 0 THEN "" ELSE LowerChar(SubSeq(s, 1, 1)) \o ToLower(SubSeq(s, 2, Len(s)))

\* encoding/json matches an object key to a struct field by its tag, exactly
\* or else ignoring case.
KeyIs(key, tag) == key = tag \/ ToLower(key) = ToLower(tag)

\* json.Unmarshal(data, &textObj) for struct{ Text string `json:"text"` }:
\* the members from i on, given the Text and the error so far. A "text"
\* member that is neither a string nor null is a type error, which the
\* decoder records before it goes on.
RECURSIVE TextObjFrom(_, _, _)
TextObjFrom(members, i, acc) ==
    IF i > Len(members) THEN acc
    ELSE LET key == members[i][1]
             val == members[i][2]
         IN  TextObjFrom(members, i + 1,
                IF ~KeyIs(key, "text") \/ val.kind = "null" THEN acc
                ELSE IF val.kind = "string" THEN [acc EXCEPT !.Text = val.str]
                ELSE [acc EXCEPT !.err = TRUE])

UnmarshalTextObj(data) ==
    IF data.kind = "object" THEN TextObjFrom(data.items, 1, [Text |-> "", err |-> FALSE])
    ELSE IF data.kind = "null" THEN [Text |-> "", err |-> FALSE]
    ELSE [Text |-> "", err |-> TRUE]

\* json.Unmarshal(data, &s) for a string s.
UnmarshalString(data) ==
    IF data.kind = "string" THEN [s |-> data.str, err |-> FALSE]
    ELSE IF data.kind = "null" THEN [s |-> "", err |-> FALSE]
    ELSE [s |-> "", err |-> TRUE]

\* FlexibleText.UnmarshalJSON: the value *ft holds afterwards (it starts as
\* "") and the error. The error's text, which quotes data, is left out.
UnmarshalJSON(data) ==
    LET textObj == UnmarshalTextObj(data)
        str == UnmarshalString(data)
    IN  IF ~textObj.err /\ textObj.Text # "" THEN [ft |-> textObj.Text, err |-> Nil]
        ELSE IF ~str.err THEN [ft |-> str.s, err |-> Nil]
        ELSE IF data.kind = "null" THEN [ft |-> "", err |-> Nil]
        ELSE [ft |-> "", err |-> <<"cannot unmarshal into FlexibleText">>]

\* The json tag of each field of GenericIncludedElement, with the field's
\* Go type: string, int, bool, *FlexibleText or *DateRangeResponse.
ElementFields ==
    << <<"$type", "Type", "string">>,
       <<"entityUrn", "EntityURN", "string">>,
       <<"trackingUrn", "TrackingURN", "string">>,
       <<"title", "Title", "flex">>,
       <<"primarySubtitle", "PrimarySubtitle", "flex">>,
       <<"secondarySubtitle", "SecondarySubtitle", "flex">>,
       <<"navigationUrl", "NavigationURL", "string">>,
       <<"badgeText", "BadgeText", "flex">>,
       <<"publicIdentifier", "PublicIdentifier", "string">>,
       <<"firstName", "FirstName", "string">>,
       <<"lastName", "LastName", "string">>,
       <<"headline", "Headline", "string">>,
       <<"companyName", "CompanyName", "string">>,
       <<"*company", "CompanyURN", "string">>,
       <<"description", "Description", "string">>,
       <<"dateRange", "DateRange", "dateRange">>,
       <<"locationName", "LocationName", "string">>,
       <<"schoolName", "SchoolName", "string">>,
       <<"*school", "SchoolURN", "string">>,
       <<"degreeName", "DegreeName", "string">>,
       <<"fieldOfStudy", "FieldOfStudy", "string">>,
       <<"activities", "Activities", "string">>,
       <<"name", "Name", "string">>,
       <<"endorsementCount", "EndorsementCount", "int">>,
       <<"endorsedByViewer", "EndorsedByViewer", "bool">>,
       <<"trackingId", "TrackingId", "string">> >>

\* The index in fields of the field a key names, 0 when it names none: the
\* exact tag first, else the first tag equal to it ignoring case.
FieldIndex(fields, key) ==
    LET exact == { i \in DOMAIN fields : fields[i][1] = key }
        folded == { i \in DOMAIN fields : KeyIs(key, fields[i][1]) }
    IN  IF exact # {} THEN CHOOSE i \in exact : \A j \in exact : i <= j
        ELSE IF folded # {} THEN CHOOSE i \in folded : \A j \in folded : i <= j
        ELSE 0

\* A decoding in progress: the Go value built so far, whether a type error
\* has been recorded (the decoder goes on and returns it at the end), and the
\* error of an Unmarshaler, which ends the decoding at once.
Decoding(v, typeErr, abort) == [v |-> v, typeErr |-> typeErr, abort |-> abort]

\* A JSON array decoded into a []string, from element i on: element i goes
\* into slot i of the backing array, which is zero when the array never held
\* it, and the length grows to i when it is less; at the end the length is
\* cut to the array's, and an empty array gives a new empty slice. null
\* leaves a slot as it is; a value that is no string is a type error.
RECURSIVE DecodeStringsFrom(_, _, _)
DecodeStringsFrom(values, i, acc) ==
    IF i > Len(values)
    THEN [acc EXCEPT !.v = IF Len(values) = 0 THEN [len |-> 0, array |-> << >>]
                           ELSE [@ EXCEPT !.len = Len(values)]]
    ELSE LET array == IF i > Len(acc.v.array) THEN Append(acc.v.array, "")
                      ELSE acc.v.array
             len == IF i > acc.v.len THEN i ELSE acc.v.len
             val == values[i]
         IN  DecodeStringsFrom(values, i + 1,
                IF val.kind = "string"
                THEN [acc EXCEPT !.v = [len |-> len,
                                        array |-> [array EXCEPT ![i] = val.str]]]
                ELSE [acc EXCEPT !.v = [len |-> len, array |-> array],
                                 !.typeErr = @ \/ val.kind # "null"])

\* A field of type string, int or []string. For a string or an int null
\* leaves the field and a value of the field's JSON kind sets it; for a
\* []string null sets nil and an array is decoded into the slice; anything
\* else is a type error.
DecodeField(val, acc, field, type) ==
    LET Set(v) == [acc EXCEPT !.v = [@ EXCEPT ![field] = v]]
        Decoded(s) == [acc EXCEPT !.v = [@ EXCEPT ![field] = s.v],
                                  !.typeErr = @ \/ s.typeErr]
    IN  IF type = "[]string"
        THEN IF val.kind = "null" THEN Set([len |-> 0, array |-> << >>])
             ELSE IF val.kind = "array"
             THEN Decoded(DecodeStringsFrom(val.items, 1,
                            Decoding(acc.v[field], FALSE, Nil)))
             ELSE [acc EXCEPT !.typeErr = TRUE]
        ELSE IF val.kind = "null" THEN acc
        ELSE IF type = "string" /\ val.kind = "string" THEN Set(val.str)
        ELSE IF type = "int" /\ val.kind = "number" THEN Set(val.num)
        ELSE [acc EXCEPT !.typeErr = TRUE]

DateFields ==
    << <<"year", "Year", "int">>,
       <<"month", "Month", "int">>,
       <<"day", "Day", "int">>,
       <<"$recipeTypes", "RecipeTypes", "[]string">>,
       <<"$type", "Type", "string">> >>

\* The members of a date object from i on, decoded into a DateResponse.
RECURSIVE DecodeDateFrom(_, _, _)
DecodeDateFrom(members, i, acc) ==
    IF i > Len(members) THEN acc
    ELSE LET f == FieldIndex(DateFields, members[i][1])
             val == members[i][2]
         IN  DecodeDateFrom(members, i + 1,
                IF f = 0 THEN acc
                ELSE DecodeField(val, acc, DateFields[f][2], DateFields[f][3]))

\* A *DateResponse field: null sets nil; any other value makes the decoder
\* allocate a DateResponse when the pointer is nil, and then an object is
\* decoded into it and anything else is a type error.
DecodeDatePtr(val, acc, field) ==
    IF val.kind = "null" THEN [acc EXCEPT !.v = [@ EXCEPT ![field] = Nil]]
    ELSE LET old == IF acc.v[field] = Nil THEN DateResponse(0, 0, 0) ELSE Deref(acc.v[field])
             Decoded(d) == [acc EXCEPT !.v = [@ EXCEPT ![field] = Ptr(d.v)],
                                       !.typeErr = @ \/ d.typeErr]
         IN  IF val.kind = "object"
             THEN Decoded(DecodeDateFrom(val.items, 1, Decoding(old, FALSE, Nil)))
             ELSE Decoded(Decoding(old, TRUE, Nil))

DateRangeFields ==
    << <<"start", "Start", "date">>,
       <<"end", "End", "date">>,
       <<"$recipeTypes", "RecipeTypes", "[]string">>,
       <<"$type", "Type", "string">> >>

\* The members of a dateRange object from i on, decoded into a
\* DateRangeResponse.
RECURSIVE DecodeDateRangeFrom(_, _, _)
DecodeDateRangeFrom(members, i, acc) ==
    IF i > Len(members) THEN acc
    ELSE LET f == FieldIndex(DateRangeFields, members[i][1])
             val == members[i][2]
         IN  DecodeDateRangeFrom(members, i + 1,
                IF f = 0 THEN acc
                ELSE IF DateRangeFields[f][3] = "date"
                THEN DecodeDatePtr(val, acc, DateRangeFields[f][2])
                ELSE DecodeField(val, acc, DateRangeFields[f][2],
                                 DateRangeFields[f][3]))

\* One member of an included object, decoded into the element built so far;
\* fields is the field table of the element's Go type. For a pointer field
\* null sets nil, and any other value makes the decoder allocate the target
\* when the pointer is nil: a *FlexibleText is then handed to UnmarshalJSON,
\* a *TextObject or *DateRangeResponse is decoded from an object and is a
\* type error for anything else.
DecodeElementMember(fields, key, val, acc) ==
    LET Set(field, v) == [acc EXCEPT !.v = [@ EXCEPT ![field] = v]]
        TypeError == [acc EXCEPT !.typeErr = TRUE]
        \* u is what UnmarshalJSON returned; on an error it has left the
        \* FlexibleText as it was.
        Flex(field, u) ==
            IF u.err # Nil
            THEN [acc EXCEPT !.v = [@ EXCEPT ![field] =
                                        IF @ = Nil THEN Ptr("") ELSE @],
                             !.abort = u.err]
            ELSE Set(field, Ptr(u.ft))
        \* t is the TextObject after the decoding.
        Text(field, t) ==
            [acc EXCEPT !.v = [@ EXCEPT ![field] = Ptr([Text |-> t.Text])],
                        !.typeErr = @ \/ t.err]
        \* r is the DateRangeResponse after the decoding.
        Range(field, r) ==
            [acc EXCEPT !.v = [@ EXCEPT ![field] = Ptr(r.v)],
                        !.typeErr = @ \/ r.typeErr]
        Field(field, type) ==
            IF type = "flex"
            THEN IF val.kind = "null" THEN Set(field, Nil)
                 ELSE Flex(field, UnmarshalJSON(val))
            ELSE IF type = "textobj"
            THEN IF val.kind = "null" THEN Set(field, Nil)
                 ELSE LET old == IF acc.v[field] = Nil THEN ""
                                 ELSE Deref(acc.v[field]).Text
                      IN  IF val.kind = "object"
                          THEN Text(field, TextObjFrom(val.items, 1,
                                            [Text |-> old, err |-> FALSE]))
                          ELSE Text(field, [Text |-> old, err |-> TRUE])
            ELSE IF type = "dateRange"
            THEN IF val.kind = "null" THEN Set(field, Nil)
                 ELSE LET old == IF acc.v[field] = Nil
                                 THEN [Start |-> Nil, End |-> Nil,
                                       RecipeTypes |-> [len |-> 0, array |-> << >>],
                           Type |-> ""]
                                 ELSE Deref(acc.v[field])
                      IN  IF val.kind = "object"
                          THEN Range(field, DecodeDateRangeFrom(val.items, 1,
                                            Decoding(old, FALSE, Nil)))
                          ELSE Range(field, Decoding(old, TRUE, Nil))
            ELSE IF val.kind = "null" THEN acc
            ELSE IF type = "string" /\ val.kind = "string" THEN Set(field, val.str)
            ELSE IF type = "int" /\ val.kind = "number" THEN Set(field, val.num)
            ELSE IF type = "bool" /\ val.kind = "bool" THEN Set(field, val.str = "true")
            ELSE TypeError
        At(f) == IF f = 0 THEN acc ELSE Field(fields[f][2], fields[f][3])
    IN  At(FieldIndex(fields, key))

RECURSIVE DecodeElementFrom(_, _, _, _)
DecodeElementFrom(fields, members, i, acc) ==
    IF i > Len(members) \/ acc.abort # Nil THEN acc
    ELSE DecodeElementFrom(fields, members, i + 1,
            DecodeElementMember(fields, members[i][1], members[i][2], acc))

\* The elements of the "included" array from i on, decoded into the slice
\* acc.v: element i goes into slot i of the backing array, which is a zero
\* element when the array never held it, and the length grows to i when it
\* is less; at the end the length is cut to the array's, and an empty array
\* gives a new empty slice. null leaves a slot as it is, a value that is
\* neither null nor an object is a type error, and the error of an
\* Unmarshaler ends the decoding where it is.
RECURSIVE DecodeIncludedFrom(_, _, _, _)
DecodeIncludedFrom(fields, values, i, acc) ==
    IF acc.abort # Nil THEN acc
    ELSE IF i > Len(values)
    THEN [acc EXCEPT !.v = IF Len(values) = 0 THEN [len |-> 0, array |-> << >>]
                           ELSE [@ EXCEPT !.len = Len(values)]]
    ELSE LET val == values[i]
             array == IF i > Len(acc.v.array) THEN Append(acc.v.array, ZeroElement)
                      ELSE acc.v.array
             len == IF i > acc.v.len THEN i ELSE acc.v.len
             Stored(e) == [v |-> [len |-> len, array |-> [array EXCEPT ![i] = e.v]],
                           typeErr |-> acc.typeErr \/ e.typeErr,
                           abort |-> e.abort]
         IN  DecodeIncludedFrom(fields, values, i + 1,
                Stored(IF val.kind = "object"
                       THEN DecodeElementFrom(fields, val.items, 1,
                                  Decoding(array[i], FALSE, Nil))
                       ELSE Decoding(array[i], val.kind # "null", Nil)))

\* The Go types a search response is made of, each with its kind and, for a
\* slice or pointer, its element type, for a struct, the json tags of its
\* fields with their types; any other name is a basic type. The elements of
\* Included have their own field table.
SearchType(name) ==
    LET Basic(kind) == [kind |-> kind, elem |-> "", fields |-> << >>]
        Slice(elem) == [kind |-> "slice", elem |-> elem, fields |-> << >>]
        Pointer(elem) == [kind |-> "ptr", elem |-> elem, fields |-> << >>]
        Struct(fields) == [kind |-> "struct", elem |-> "", fields |-> fields]
    IN  CASE name = "*string" -> Pointer("string")
          [] name = "*TextObject" -> Pointer("TextObject")
          [] name = "TextObject" -> Struct(<< <<"text", "Text", "string">> >>)
          [] name = "APIPagingInfo" ->
                Struct(<< <<"start", "Start", "int">>,
                          <<"count", "Count", "int">>,
                          <<"total", "Total", "int">> >>)
          [] name = "ClusterMetadata" ->
                Struct(<< <<"totalResultCount", "TotalResultCount", "int">> >>)
          [] name = "Item" ->
                Struct(<< <<"*entityResult", "EntityResultURN", "string">>,
                          <<"*feedbackCard", "FeedbackCardURN", "string">> >>)
          [] name = "[]Item" -> Slice("Item")
          [] name = "ClusterElement" ->
                Struct(<< <<"items", "Items", "[]Item">>,
                          <<"position", "Position", "int">>,
                          <<"image", "Image", "*string">>,
                          <<"title", "Title", "*TextObject">> >>)
          [] name = "[]ClusterElement" -> Slice("ClusterElement")
          [] name = "SearchDashClusters" ->
                Struct(<< <<"metadata", "Metadata", "ClusterMetadata">>,
                          <<"paging", "Paging", "APIPagingInfo">>,
                          <<"elements", "Elements", "[]ClusterElement">> >>)
          [] name = "InnerData" ->
                Struct(<< <<"searchDashClustersByAll", "SearchDashClustersByAll",
                            "SearchDashClusters">> >>)
          [] name = "RootData" -> Struct(<< <<"data", "InnerData", "InnerData">> >>)
          [] name = "SearchAPIResponse" ->
                Struct(<< <<"data", "RootData", "RootData">>,
                          <<"included", "Included", "[]GenericIncludedElement">> >>)
          [] OTHER -> Basic(name)

\* The Go types a profile response is made of, in the same form; any other
\* name is looked up among the types of a search response.
GoType(name) ==
    LET Slice(elem) == [kind |-> "slice", elem |-> elem, fields |-> << >>]
        Struct(fields) == [kind |-> "struct", elem |-> "", fields |-> fields]
    IN  CASE name = "[]string" -> Slice("string")
          [] name = "IdentityDashProfilesCollection" ->
                Struct(<< <<"*elements", "Elements", "[]string">>,
                          <<"$recipeTypes", "RecipeTypes", "[]string">>,
                          <<"$type", "Type", "string">> >>)
          [] name = "ProfileInnerData" ->
                Struct(<< <<"$recipeTypes", "RecipeTypes", "[]string">>,
                          <<"identityDashProfilesByMemberIdentity",
                            "IdentityDashProfilesByMemberIdentity",
                            "IdentityDashProfilesCollection">>,
                          <<"$type", "Type", "string">> >>)
          [] name = "ProfileData" -> Struct(<< <<"data", "Data", "ProfileInnerData">> >>)
          [] name = "ProfileAPIResponse" ->
                Struct(<< <<"data", "Data", "ProfileData">>,
                          <<"included", "Included", "[]GenericIncludedElement">>,
                          <<"meta", "Meta", "interface{}">> >>)
          [] OTHER -> SearchType(name)

\* Whether decoding val into a Go value of the named type records a type
\* error. null is accepted by every type; a struct takes an object and
\* decodes the members that name a field, a slice takes an array and decodes
\* its elements, a pointer takes what its target takes.
RECURSIVE TypeErrorIn(_, _)
TypeErrorIn(name, val) ==
    LET type == GoType(name) IN
    IF val.kind = "null" \/ type.kind = "interface{}" THEN FALSE
    ELSE IF type.kind = "string" THEN val.kind # "string"
    ELSE IF type.kind = "int" THEN val.kind # "number"
    ELSE IF type.kind = "bool" THEN val.kind # "bool"
    ELSE IF type.kind = "ptr" THEN TypeErrorIn(type.elem, val)
    ELSE IF type.kind = "slice"
    THEN \/ val.kind # "array"
         \/ \E i \in DOMAIN val.items : TypeErrorIn(type.elem, val.items[i])
    ELSE \/ val.kind # "object"
         \/ \E i \in DOMAIN val.items :
                LET f == FieldIndex(type.fields, val.items[i][1]) IN
                f # 0 /\ TypeErrorIn(type.fields[f][3], val.items[i][2])

\* The members of the body from i on, decoded into the response of the Go
\* type top, whose included elements have the field table fields. Of
\* the response's fields the model keeps the value of Included; for the
\* others it keeps whether their value has the field's type.
RECURSIVE DecodeResponseFrom(_, _, _, _, _)
DecodeResponseFrom(top, fields, members, i, acc) ==
    IF i > Len(members) \/ acc.abort # Nil THEN acc
    ELSE LET struct == GoType(top).fields
             f == FieldIndex(struct, members[i][1])
             val == members[i][2]
             Included(inc) == [v |-> [Included |-> inc.v],
                               typeErr |-> acc.typeErr \/ inc.typeErr,
                               abort |-> inc.abort]
         IN  DecodeResponseFrom(top, fields, members, i + 1,
                IF f = 0 THEN acc
                ELSE IF struct[f][2] = "Included"
                THEN IF val.kind = "null"
                     THEN [acc EXCEPT !.v = [Included |-> [len |-> 0, array |-> << >>]]]
                     ELSE IF val.kind = "array"
                     THEN Included(DecodeIncludedFrom(fields, val.items, 1,
                                        Decoding(acc.v.Included, FALSE, Nil)))
                     ELSE [acc EXCEPT !.typeErr = TRUE]
                ELSE [acc EXCEPT !.typeErr = @ \/ TypeErrorIn(struct[f][3], val)])

\* A variant that reports no error and keeps what it has decoded.
UnmarshalResponse_SwallowsErrors(top, fields, body) ==
    IF body.kind # "object" THEN [response |-> [Included |-> << >>], err |-> Nil]
    ELSE LET Decoded(d) ==
                [response |-> [Included |-> SubSeq(d.v.Included.array, 1,
                                                   d.v.Included.len)],
                 err |-> Nil]
         IN  Decoded(DecodeResponseFrom(top, fields, body.items, 1,
                        Decoding([Included |-> [len |-> 0, array |-> << >>]], FALSE, Nil)))

\* json.Unmarshal(respBodyBytes, &apiResponse): the response and the error.
UnmarshalResponse(top, fields, body) ==
    IF body.kind = "invalid"
    THEN [response |-> [Included |-> << >>], err |-> <<"invalid character">>]
    ELSE IF body.kind = "null" THEN [response |-> [Included |-> << >>], err |-> Nil]
    ELSE IF body.kind # "object"
    THEN [response |-> [Included |-> << >>], err |-> <<"json: cannot unmarshal">>]
    ELSE LET Decoded(d) ==
                [response |-> [Included |-> SubSeq(d.v.Included.array, 1,
                                                   d.v.Included.len)],
                 err |-> IF d.abort # Nil THEN d.abort
                         ELSE IF d.typeErr THEN <<"json: cannot unmarshal">>
                         ELSE Nil]
         IN  Decoded(DecodeResponseFrom(top, fields, body.items, 1,
                        Decoding([Included |-> [len |-> 0, array |-> << >>]], FALSE, Nil)))

\* ParseFromJSON.
ParseFromJSON(jsonData) ==
    LET Unmarshalled(d) ==
            IF d.err # Nil THEN Outcome(Nil, <<"failed to unmarshal JSON">> \o d.err)
            ELSE OutcomeOf(ParseFromJSONDecoded(Memory(d.response, << >>)))
    IN  Unmarshalled(UnmarshalResponse("ProfileAPIResponse", ElementFields, jsonData))

(***************************************************************************)
(* The client: configuration, errors, the query encoder.                   *)
(***************************************************************************)
VoyagerBaseURL == "https://www.linkedin.com/voyager/api/graphql"

DefaultSearchQueryID == "voyagerSearchDashClusters.7cdf88d3366ad02cc5a3862fb9a24085"

DefaultProfileQueryID == "voyagerIdentityDashProfiles.9d37763c7ad41b36d4fb077d1e9e6ee2"

DefaultUserAgent == "Mozilla/5.0 (Macintosh; Intel Mac OS X 10_15_7) AppleWebKit/537.36 (KHTML, like Gecko) Chrome/136.0.0.0 Safari/537.36"

ErrAuthMissing == "linkedinscraper: authentication credentials (li_at, csrf_token) are missing"

ErrKeywordsMissing == "linkedinscraper: search keywords are missing"

ErrRequestBuildFailed == "linkedinscraper: failed to build API request"

ErrRequestFailed == "linkedinscraper: API request failed"

ErrUnauthorized == "linkedinscraper: unauthorized, check credentials or IP reputation"

ErrRateLimited == "linkedinscraper: rate limited by API"

ErrResponseParseFailed == "linkedinscraper: failed to parse API response"

ErrNoProfilesFound == "linkedinscraper: no profiles found matching criteria"

\* errors.New(text), fmt.Errorf("%w: ...", sentinel, ...) whose detail the
\* model abbreviates, and errors.Is.
NewError(text) == <<text>>

Wrap(sentinel, detail) == <<sentinel \o ": " \o detail, sentinel>>

Is(err, target) == \E i \in DOMAIN err : err[i] = target

\* Config with its AuthCredentials.
Config(liAt, csrf, userAgent) ==
    [Auth |-> [LiAtCookie |-> liAt, CSRFToken |-> csrf, JSESSIONID |-> "ajax:1"],
     UserAgent |-> userAgent]

\* NewConfig(auth, userAgent...): the configuration and the error. userAgent
\* is the list of the variadic arguments.
NewConfig(auth, userAgent) ==
    IF auth.LiAtCookie = "" \/ auth.CSRFToken = ""
    THEN [cfg |-> Nil, err |-> NewError(ErrAuthMissing)]
    ELSE [cfg |-> Ptr([Auth |-> auth,
                       UserAgent |-> IF Len(userAgent) > 0 /\ userAgent[1] # ""
                                     THEN userAgent[1]
                                     ELSE DefaultUserAgent]),
          err |-> Nil]

\* The bytes url.QueryEscape leaves as they are.
Unreserved == "ABCDEFGHIJKLMNOPQRSTUVWXYZabcdefghijklmnopqrstuvwxyz0123456789-_.~"

\* The ASCII bytes url.QueryEscape replaces, each with its replacement: a
\* space becomes "+", any other byte "%" and its two hexadecimal digits.
EscapeTable ==
    << <<" ", "+">>, <<NUL, "%00">>, <<"\t", "%09">>, <<"\n", "%0A">>,
       <<"\f", "%0C">>, <<"\r", "%0D">>, <<"!", "%21">>, <<"\"", "%22">>,
       <<"#", "%23">>, <<"$", "%24">>, <<"%", "%25">>, <<"&", "%26">>,
       <<"'", "%27">>, <<"(", "%28">>, <<")", "%29">>, <<"*", "%2A">>,
       <<"+", "%2B">>, <<",", "%2C">>, <<"/", "%2F">>, <<":", "%3A">>,
       <<";", "%3B">>, <<"<", "%3C">>, <<"=", "%3D">>, <<">", "%3E">>,
       <<"?", "%3F">>, <<"[", "%5B">>, <<"\\", "%5C">>, <<"]", "%5D">>,
       <<"^", "%5E">>, <<"{", "%7B">>, <<"|", "%7C">>,
       <<"}", "%7D">> >>

EscapeChar(c) ==
    IF \E i \in 1..Len(Unreserved) : SubSeq(Unreserved, i, i) = c THEN c
    ELSE EscapeTable[CHOOSE i \in DOMAIN EscapeTable : EscapeTable[i][1] = c][2]

\* url.QueryEscape.
RECURSIVE QueryEscape(_)
QueryEscape(s) ==
    IF s = "" THEN ""
    ELSE EscapeChar(SubSeq(s, 1, 1)) \o QueryEscape(SubSeq(s, 2, Len(s)))

\* The %d verb of fmt.Sprintf.
RECURSIVE Itoa(_)
Itoa(n) ==
    IF n < 0 THEN "-" \o Itoa(-n)
    ELSE IF n < 10 THEN SubSeq("0123456789", n + 1, n + 1)
    ELSE Itoa(n \div 10) \o Itoa(n % 10)

\* The %t verb of fmt.Sprintf.
FormatBool(b) == IF b THEN "true" ELSE "false"

\* A variant that joins the elements last first.
RECURSIVE stringSliceToString_Reversed(_, _)
stringSliceToString_Reversed(slice, sep) ==
    IF Len(slice) = 0 THEN ""
    ELSE IF Len(slice) = 1 THEN slice[1]
    ELSE stringSliceToString_Reversed(Tail(slice), sep) \o sep \o slice[1]

\* strings.Join.
RECURSIVE stringSliceToString(_, _)
stringSliceToString(slice, sep) ==
    IF Len(slice) = 0 THEN ""
    ELSE IF Len(slice) = 1 THEN slice[1]
    ELSE slice[1] \o sep \o stringSliceToString(Tail(slice), sep)

\* One pass of buildGraphQLURL's loop over the query parameters.
QueryParamString(p) ==
    LET valueList == "List(" \o stringSliceToString(p.Value, ",") \o ")"
    IN  "(key:" \o p.Key \o ",value:" \o valueList \o ")"

\* A variant that writes count before start.
VariablesString_CountFirst(variables) ==
    LET queryParams == [i \in DOMAIN variables.Query.QueryParameters |->
                            QueryParamString(variables.Query.QueryParameters[i])]
        queryParametersString == "List(" \o stringSliceToString(queryParams, ",") \o ")"
    IN  "(count:" \o Itoa(variables.Count)
        \o ",start:" \o Itoa(variables.Start)
        \o ",origin:" \o variables.Origin
        \o ",query:(keywords:" \o QueryEscape(variables.Query.Keywords)
        \o ",flagshipSearchIntent:" \o variables.Query.FlagshipSearchIntent
        \o ",queryParameters:" \o queryParametersString
        \o ",includeFiltersInResponse:"
        \o FormatBool(variables.Query.IncludeFiltersInResponse) \o "))"

\* The fmt.Sprintf of the variables fragment, given the queryParams the loop
\* has collected.
FormatVariables(variables, queryParams) ==
    LET queryParametersString == "List(" \o stringSliceToString(queryParams, ",") \o ")"
    IN  "(start:" \o Itoa(variables.Start)
        \o ",count:" \o Itoa(variables.Count)
        \o ",origin:" \o variables.Origin
        \o ",query:(keywords:" \o QueryEscape(variables.Query.Keywords)
        \o ",flagshipSearchIntent:" \o variables.Query.FlagshipSearchIntent
        \o ",queryParameters:" \o queryParametersString
        \o ",includeFiltersInResponse:"
        \o FormatBool(variables.Query.IncludeFiltersInResponse) \o "))"

\* The variables fragment buildGraphQLURL constructs by hand.
VariablesString(variables) ==
    FormatVariables(variables,
        [i \in DOMAIN variables.Query.QueryParameters |->
            QueryParamString(variables.Query.QueryParameters[i])])

\* Whether the part of rawURL before its first "#" holds a control byte:
\* url.Parse cuts the fragment off first and rejects such a byte in the rest.
HasCTL(rawURL) ==
    \E i \in 1..Len(rawURL) :
        /\ SubSeq(rawURL, i, i) \in {NUL, "\t", "\n", "\r", "\f"}
        /\ \A j \in 1..(i - 1) : SubSeq(rawURL, j, j) # "#"

\* The error of url.Parse, nil when rawURL parses: the control byte before
\* the fragment, or a "%" in the fragment, the part after the first "#",
\* that two hexadecimal digits do not follow. The query is kept as it is.
ParseError(rawURL) ==
    IF HasCTL(rawURL) THEN <<"net/url: invalid control character in URL">>
    ELSE IF \E i \in 1..Len(rawURL) :
                /\ SubSeq(rawURL, i, i) = "%"
                /\ \E j \in 1..(i - 1) : SubSeq(rawURL, j, j) = "#"
                /\ \/ i + 2 > Len(rawURL)
                   \/ \E k \in {i + 1, i + 2} :
                        \A h \in 1..22 :
                            SubSeq(rawURL, k, k) # SubSeq("0123456789abcdefABCDEF", h, h)
    THEN <<"invalid URL escape">>
    ELSE Nil

\* query.Encode() of the two parameters set on the base URL's query: the
\* keys in sorted order, the values escaped.
EncodedBaseQuery(queryID) ==
    "includeWebMetadata=true&queryId=" \o QueryEscape(queryID)

\* buildGraphQLURL: the URL and the error.
buildGraphQLURL(baseURL, queryID, variables) ==
    IF ParseError(baseURL) # Nil
    THEN [url |-> "", err |-> <<"failed to parse base URL">> \o ParseError(baseURL)]
    ELSE [url |-> baseURL \o "?" \o EncodedBaseQuery(queryID)
                    \o "&variables=" \o VariablesString(variables),
          err |-> Nil]

\* buildProfileGraphQLURL: the URL and the error.
buildProfileGraphQLURL(baseURL, queryID, id) ==
    IF ParseError(baseURL) # Nil
    THEN [url |-> "", err |-> <<"failed to parse base URL">> \o ParseError(baseURL)]
    ELSE [url |-> baseURL \o "?" \o EncodedBaseQuery(queryID)
                    \o "&variables=" \o "(memberIdentity:{publicIdentifier:" \o id \o "})",
          err |-> Nil]

(***************************************************************************)
(* The transport. A reply is what httpClient.Do and the reading of the     *)
(* body end with: the round trip fails, the client gives up following      *)
(* redirects, the gzip reader cannot be made, the body cannot be read, or  *)
(* a response with a status and a body arrives. via holds the Location of  *)
(* each redirect the client followed before: NewClient's http.Client has   *)
(* no CheckRedirect, so Do follows a 3xx response that has a Location, and *)
(* fails once ten requests have been answered with one.                    *)
(***************************************************************************)
TransportError == [kind |-> "transportErr", status |-> 0, body |-> JInvalid, via |-> << >>]

Response(status, body) == [kind |-> "response", status |-> status, body |-> body, via |-> << >>]

\* The request makeRequest builds and hands to httpClient.Do: its URL as it
\* is sent, which is urlStr up to its first "#" (the fragment stays with the
\* client), the headers derived from the configuration, and followed, the
\* requests Do sends after it, none yet.
RequestOf(config, urlStr) ==
    [url |-> LET hashes == { i \in 1..Len(urlStr) : SubSeq(urlStr, i, i) = "#" }
             IN  IF hashes = {} THEN urlStr
                 ELSE SubSeq(urlStr, 1, (CHOOSE i \in hashes : \A j \in hashes : i <= j) - 1),
     userAgent |-> "Mozilla/5.0 (Macintosh; Intel Mac OS X 10_15_7) AppleWebKit/537.36 (KHTML, like Gecko) Chrome/136.0.0.0 Safari/537.36",
     csrfToken |-> config.Auth.CSRFToken,
     cookie |-> "li_at=" \o config.Auth.LiAtCookie \o "; JSESSIONID=\""
                    \o config.Auth.JSESSIONID \o "\"",
     followed |-> << >>]

\* The request once Do has followed the redirects to the locations via: for
\* each it has sent a request to the location, with the headers of the first
\* request. The locations are on the host of the first request, to which the
\* client sends the cookie as well.
Followed(request, via) ==
    [request EXCEPT !.followed =
        [k \in 1..Len(via) |->
            [url |-> via[k], userAgent |-> request.userAgent,
             csrfToken |-> request.csrfToken, cookie |-> request.cookie]]]

\* A variant that sends the request a second time when the round trip fails
\* or the status is not 200.
makeRequest_RetriesOnFailure(config, urlStr, reply) ==
    IF ParseError(urlStr) # Nil
    THEN [sent |-> << >>, status |-> 0, body |-> JInvalid,
          err |-> <<"failed to create request">> \o ParseError(urlStr)]
    ELSE IF reply.kind \in {"transportErr", "redirectErr"}
    THEN [sent |-> <<Followed(RequestOf(config, urlStr), reply.via),
                     RequestOf(config, urlStr)>>,
          status |-> 0, body |-> JInvalid,
          err |-> <<"http client failed to execute request",
                    IF reply.kind = "redirectErr" THEN "stopped after 10 redirects"
                    ELSE "round trip failed">>]
    ELSE IF reply.kind = "gzipErr"
    THEN [sent |-> <<Followed(RequestOf(config, urlStr), reply.via)>>,
          status |-> reply.status, body |-> JInvalid,
          err |-> <<"failed to create gzip reader for response body", "gzip: invalid header">>]
    ELSE IF reply.kind = "readErr"
    THEN [sent |-> <<Followed(RequestOf(config, urlStr), reply.via)>>,
          status |-> reply.status, body |-> JInvalid,
          err |-> <<"failed to read response body", "unexpected EOF">>]
    ELSE [sent |-> IF reply.status = 200
                   THEN <<Followed(RequestOf(config, urlStr), reply.via)>>
                   ELSE <<Followed(RequestOf(config, urlStr), reply.via),
                          RequestOf(config, urlStr)>>,
          status |-> reply.status, body |-> reply.body, err |-> Nil]

\* makeRequest: the requests it handed to httpClient.Do, each with the
\* requests Do sent after it, the response's status and body, and the error.
\* http.NewRequestWithContext fails where url.Parse fails, and then nothing
\* is sent.
makeRequest(config, urlStr, reply) ==
    IF ParseError(urlStr) # Nil
    THEN [sent |-> << >>, status |-> 0, body |-> JInvalid,
          err |-> <<"failed to create request">> \o ParseError(urlStr)]
    ELSE IF reply.kind \in {"transportErr", "redirectErr"}
    THEN [sent |-> <<Followed(RequestOf(config, urlStr), reply.via)>>,
          status |-> 0, body |-> JInvalid,
          err |-> <<"http client failed to execute request",
                    IF reply.kind = "redirectErr" THEN "stopped after 10 redirects"
                    ELSE "round trip failed">>]
    ELSE IF reply.kind = "gzipErr"
    THEN [sent |-> <<Followed(RequestOf(config, urlStr), reply.via)>>,
          status |-> reply.status, body |-> JInvalid,
          err |-> <<"failed to create gzip reader for response body", "gzip: invalid header">>]
    ELSE IF reply.kind = "readErr"
    THEN [sent |-> <<Followed(RequestOf(config, urlStr), reply.via)>>,
          status |-> reply.status, body |-> JInvalid,
          err |-> <<"failed to read response body", "unexpected EOF">>]
    ELSE [sent |-> <<Followed(RequestOf(config, urlStr), reply.via)>>,
          status |-> reply.status, body |-> reply.body, err |-> Nil]

\* A variant that maps every status other than 200 to ErrRequestFailed.
StatusError_AlwaysRequestFailed(status) ==
    Wrap(ErrRequestFailed, "received status code " \o Itoa(status))

\* The error of the switch on a status other than 200.
StatusError(status) ==
    IF status \in {401, 403} THEN Wrap(ErrUnauthorized, "status " \o Itoa(status))
    ELSE IF status = 429 THEN Wrap(ErrRateLimited, "status " \o Itoa(status))
    ELSE Wrap(ErrRequestFailed, "received status code " \o Itoa(status))

\* A variant in which an empty list of profiles is returned as the error
\* ErrNoProfilesFound.
Returns_EmptyListIsNotFound(value, err, requests) ==
    IF value = Ptr(<< >>)
    THEN [value |-> Nil, err |-> NewError(ErrNoProfilesFound), requests |-> requests]
    ELSE [value |-> value, err |-> err, requests |-> requests]

\* A variant in which a call that fails after it sent its request returns an
\* empty result together with the error.
Returns_ResultWithError(value, err, requests) ==
    [value |-> IF err # Nil /\ requests # << >> THEN Ptr(<< >>) ELSE value,
     err |-> err, requests |-> requests]

\* What a call of the client returns: the value (nil, a pointer to a profile
\* or to the list of profiles), the error, and the requests it sent.
Returns(value, err, requests) == [value |-> value, err |-> err, requests |-> requests]

\* A variant that checks its inputs only after the request has been made.
GetProfile_RequestBeforeValidation(config, id, reply) ==
    LET Converted(c, sent) == Returns(c.profile, c.err, sent)
        Unmarshalled(d, sent) ==
            IF d.err # Nil
            THEN Returns(Nil, Wrap(ErrResponseParseFailed, d.err[1]), sent)
            ELSE Converted(OutcomeOf(GetProfileDecoded(Memory(d.response, << >>), id)),
                           sent)
        Requested(r) ==
            IF config.Auth.LiAtCookie = "" \/ config.Auth.CSRFToken = ""
            THEN Returns(Nil, NewError(ErrAuthMissing), r.sent)
            ELSE IF id = ""
            THEN Returns(Nil, NewError("publicIdentifier cannot be empty"), r.sent)
            ELSE IF r.err # Nil
            THEN Returns(Nil, Wrap(ErrRequestFailed, r.err[1]), r.sent)
            ELSE IF r.status # 200
            THEN Returns(Nil, StatusError(r.status), r.sent)
            ELSE Unmarshalled(UnmarshalResponse("ProfileAPIResponse", ElementFields, r.body), r.sent)
        Built(built) ==
            IF built.err # Nil
            THEN Returns(Nil, Wrap(ErrRequestBuildFailed, built.err[1]), << >>)
            ELSE Requested(makeRequest(config, built.url, reply))
    IN  Built(buildProfileGraphQLURL(VoyagerBaseURL, DefaultProfileQueryID, id))

\* Client.GetProfile.
GetProfile(config, id, reply) ==
    IF config.Auth.LiAtCookie = "" \/ config.Auth.CSRFToken = ""
    THEN Returns(Nil, NewError(ErrAuthMissing), << >>)
    ELSE IF id = ""
    THEN Returns(Nil, NewError("publicIdentifier cannot be empty"), << >>)
    ELSE LET \* c is the profile and the error of the conversion.
             Converted(c, sent) == Returns(c.profile, c.err, sent)
             \* d is what json.Unmarshal made of the body.
             Unmarshalled(d, sent) ==
                IF d.err # Nil
                THEN Returns(Nil, Wrap(ErrResponseParseFailed, d.err[1]), sent)
                ELSE Converted(OutcomeOf(GetProfileDecoded(Memory(d.response, << >>), id)),
                               sent)
             \* r is what makeRequest returned.
             Requested(r) ==
                IF r.err # Nil
                THEN Returns(Nil, Wrap(ErrRequestFailed, r.err[1]), r.sent)
                ELSE IF r.status # 200
                THEN Returns(Nil, StatusError(r.status), r.sent)
                ELSE Unmarshalled(UnmarshalResponse("ProfileAPIResponse", ElementFields, r.body), r.sent)
             \* built is what buildProfileGraphQLURL returned.
             Built(built) ==
                IF built.err # Nil
                THEN Returns(Nil, Wrap(ErrRequestBuildFailed, built.err[1]), << >>)
                ELSE Requested(makeRequest(config, built.url, reply))
         IN  Built(buildProfileGraphQLURL(VoyagerBaseURL, DefaultProfileQueryID, id))

\* The json tag of each field of the GenericIncludedElement a search
\* response is decoded into; its text fields are *TextObject.
SearchElementFields ==
    << <<"$type", "Type", "string">>,
       <<"entityUrn", "EntityURN", "string">>,
       <<"trackingUrn", "TrackingURN", "string">>,
       <<"title", "Title", "textobj">>,
       <<"primarySubtitle", "PrimarySubtitle", "textobj">>,
       <<"secondarySubtitle", "SecondarySubtitle", "textobj">>,
       <<"navigationUrl", "NavigationURL", "string">>,
       <<"badgeText", "BadgeText", "textobj">>,
       <<"publicIdentifier", "PublicIdentifier", "string">>,
       <<"firstName", "FirstName", "string">>,
       <<"lastName", "LastName", "string">>,
       <<"headline", "Headline", "string">>,
       <<"trackingId", "TrackingId", "string">> >>

\* A variant that adds the network parameter whatever the list holds.
QueryParametersOf_AlwaysNetwork(args) ==
    << [Key |-> "network", Value |-> args.NetworkFilters],
       [Key |-> "resultType", Value |-> <<"PEOPLE">>] >>

\* The query parameters SearchProfiles builds from its arguments.
QueryParametersOf(args) ==
    (IF Len(args.NetworkFilters) > 0
     THEN << [Key |-> "network", Value |-> args.NetworkFilters] >>
     ELSE << >>)
    \o << [Key |-> "resultType", Value |-> <<"PEOPLE">>] >>

\* The SearchVariables SearchProfiles builds from its arguments.
SearchVariablesOf(args) ==
    [Start |-> args.Start,
     Count |-> 0,
     Origin |-> "FACETED_SEARCH",
     Query |-> [Keywords |-> args.Keywords,
                FlagshipSearchIntent |-> "SEARCH_SRP",
                QueryParameters |-> QueryParametersOf(args),
                IncludeFiltersInResponse |-> FALSE]]

\* profileDataMap[urn] after the first pass: the last Profile entity with
\* that URN, nil when the map has no such key.
ProfileDataFor(included, urn) ==
    LET at == { i \in DOMAIN included :
                    /\ included[i].Type = "com.linkedin.voyager.dash.identity.profile.Profile"
                    /\ included[i].EntityURN = urn }
    IN  IF at = {} THEN Nil
        ELSE LET item == included[CHOOSE i \in at : \A j \in at : j <= i]
             IN  Ptr([EntityURN |-> item.EntityURN,
                      PublicIdentifier |-> item.PublicIdentifier,
                      FirstName |-> item.FirstName,
                      LastName |-> item.LastName,
                      Headline |-> item.Headline])

\* A variant that takes the headline and the location from each other's
\* subtitle.
SearchProfileOf_SubtitlesSwapped(included, item) ==
    [ZeroProfile EXCEPT
        !.URN = item.TrackingURN,
        !.FullName = Deref(item.Title).Text,
        !.Headline = Deref(item.SecondarySubtitle).Text,
        !.Location = Deref(item.PrimarySubtitle).Text,
        !.ProfileURL = item.NavigationURL,
        !.PublicIdentifier = item.PublicIdentifier]

\* The profile the second pass builds from one result entity.
SearchProfileOf(included, item) ==
    LET linkedProfileData == ProfileDataFor(included, item.TrackingURN)
    IN  [ZeroProfile EXCEPT
            !.URN = item.TrackingURN,
            !.FullName = Deref(item.Title).Text,
            !.Headline = Deref(item.PrimarySubtitle).Text,
            !.Location = Deref(item.SecondarySubtitle).Text,
            !.ProfileURL = item.NavigationURL,
            !.PublicIdentifier =
                IF item.PublicIdentifier # "" THEN item.PublicIdentifier
                ELSE IF linkedProfileData # Nil
                THEN Deref(linkedProfileData).PublicIdentifier
                ELSE ""]

\* The second pass from entity i on.
RECURSIVE ExtractProfilesFrom(_, _, _)
ExtractProfilesFrom(included, i, profiles) ==
    IF i > Len(included) THEN profiles
    ELSE LET item == included[i] IN
         IF /\ item.Type = "com.linkedin.voyager.dash.search.EntityResultViewModel"
            /\ item.Title # Nil
            /\ item.PrimarySubtitle # Nil
            /\ item.SecondarySubtitle # Nil
         THEN ExtractProfilesFrom(included, i + 1,
                    Append(profiles, SearchProfileOf(included, item)))
         ELSE ExtractProfilesFrom(included, i + 1, profiles)

\* A variant that sends the search whether or not it has keywords.
SearchProfiles_KeywordsOptional(config, args, reply) ==
    IF config.Auth.LiAtCookie = "" \/ config.Auth.CSRFToken = ""
    THEN Returns(Nil, NewError(ErrAuthMissing), << >>)
    ELSE LET \* d is what json.Unmarshal made of the body.
             Unmarshalled(d, sent) ==
                IF d.err # Nil
                THEN Returns(Nil, Wrap(ErrResponseParseFailed, d.err[1]), sent)
                ELSE Returns(Ptr(ExtractProfilesFrom(d.response.Included, 1, << >>)),
                             Nil, sent)
             \* r is what makeRequest returned.
             Requested(r) ==
                IF r.err # Nil
                THEN Returns(Nil, Wrap(ErrRequestFailed, r.err[1]), r.sent)
                ELSE IF r.status # 200
                THEN Returns(Nil, StatusError(r.status), r.sent)
                ELSE Unmarshalled(UnmarshalResponse("SearchAPIResponse", SearchElementFields, r.body), r.sent)
             \* built is what buildGraphQLURL returned.
             Built(built) ==
                IF built.err # Nil
                THEN Returns(Nil, Wrap(ErrRequestBuildFailed, built.err[1]), << >>)
                ELSE Requested(makeRequest(config, built.url, reply))
         IN  Built(buildGraphQLURL(VoyagerBaseURL, DefaultSearchQueryID,
                                   SearchVariablesOf(args)))

\* Client.SearchProfiles.
SearchProfiles(config, args, reply) ==
    IF config.Auth.LiAtCookie = "" \/ config.Auth.CSRFToken = ""
    THEN Returns(Nil, NewError(ErrAuthMissing), << >>)
    ELSE IF args.Keywords = ""
    THEN Returns(Nil, NewError(ErrKeywordsMissing), << >>)
    ELSE LET \* d is what json.Unmarshal made of the body.
             Unmarshalled(d, sent) ==
                IF d.err # Nil
                THEN Returns(Nil, Wrap(ErrResponseParseFailed, d.err[1]), sent)
                ELSE Returns(Ptr(ExtractProfilesFrom(d.response.Included, 1, << >>)),
                             Nil, sent)
             \* r is what makeRequest returned.
             Requested(r) ==
                IF r.err # Nil
                THEN Returns(Nil, Wrap(ErrRequestFailed, r.err[1]), r.sent)
                ELSE IF r.status # 200
                THEN Returns(Nil, StatusError(r.status), r.sent)
                ELSE Unmarshalled(UnmarshalResponse("SearchAPIResponse", SearchElementFields, r.body), r.sent)
             \* built is what buildGraphQLURL returned.
             Built(built) ==
                IF built.err # Nil
                THEN Returns(Nil, Wrap(ErrRequestBuildFailed, built.err[1]), << >>)
                ELSE Requested(makeRequest(config, built.url, reply))
         IN  Built(buildGraphQLURL(VoyagerBaseURL, DefaultSearchQueryID,
                                   SearchVariablesOf(args)))

(***************************************************************************)
(* The resolver as a state machine: a payload, a requested identifier, and *)
(* independent calls of the resolver's entry points on them.               *)
(***************************************************************************)
\* A call that has not run: the entry point, what it returned as the caller
\* reads it at the return, and the pointer it returned.
NoCall == [fn |-> "none", out |-> Outcome(Nil, Nil), ptr |-> Nil]

NoApiCall == [fn |-> "none"]

InitResolver ==
    /\ apiResponse \in { [Included |-> inc] : inc \in SeqsUpTo(EntityPool, MaxIncluded) }
    /\ publicIdentifier \in {"jane-doe", "john", ""}
    /\ calls = [c \in Calls |-> NoCall]
    /\ heap = << >>
    /\ apiCall = NoApiCall
    /\ procs = << >>
    /\ frames = << >>

\* The state after a resolve call of entry point fn has returned r.
Resolved(c, fn, r) ==
    /\ calls' = [calls EXCEPT ![c] = [fn |-> fn, out |-> OutcomeOf(r), ptr |-> r.profile]]
    /\ apiResponse' = [Included |-> r.mem.Included]
    /\ heap' = r.mem.Heap
    /\ UNCHANGED <<publicIdentifier, apiCall, concurrentVars>>

ParseCall(c) ==
    /\ calls[c].fn = "none"
    /\ Resolved(c, "parse",
            parseProfileFromAPIResponse(Memory(apiResponse, heap), publicIdentifier))

ConvertCall(c) ==
    /\ calls[c].fn = "none"
    /\ Resolved(c, "convert",
            convertAPIResponseToLinkedInProfile(Memory(apiResponse, heap),
                                                publicIdentifier))

ParseFromJSONCall(c) ==
    /\ calls[c].fn = "none"
    /\ Resolved(c, "fromJSON", ParseFromJSONDecoded(Memory(apiResponse, heap)))

\* GetProfile once the body has been decoded into apiResponse; the call has
\* returned before its request when the identifier is empty.
GetProfileDecodedCall(c) ==
    /\ calls[c].fn = "none"
    /\ publicIdentifier # ""
    /\ Resolved(c, "getProfile",
            GetProfileDecoded(Memory(apiResponse, heap), publicIdentifier))

Next ==
    \/ \E c \in Calls : ParseCall(c)
    \/ \E c \in Calls : ConvertCall(c)
    \/ \E c \in Calls : ParseFromJSONCall(c)
    \/ \E c \in Calls : GetProfileDecodedCall(c)

Spec == InitResolver /\ [][Next]_vars

(***************************************************************************)
(* The client as a state machine: one call of NewConfig, of NewClient, of   *)
(* FlexibleText.UnmarshalJSON, of ParseFromJSON, of GetProfile or of       *)
(* SearchProfiles, on inputs drawn from the pools below. A call that sends *)
(* its request waits in httpClient.Do and goes on when the reply, drawn    *)
(* from the pools as well, has come.                                       *)
(***************************************************************************)
ConfigPool ==
    { Config("AQEDAR", "ajax:1", DefaultUserAgent),
      Config("AQEDAR", "ajax:1", "custom-agent/1.0"),
      Config("", "ajax:1", DefaultUserAgent),
      Config("AQEDAR", "", DefaultUserAgent) }

\* The JSON texts handed to UnmarshalJSON.
FlexDataPool ==
    { JStr(t) : t \in {"Engineer", "", "null", " x"} }
    \cup { JObj(<< <<"text", JStr(t)>> >>) : t \in {"Engineer", "", "null", " x"} }
    \cup { JNull, JNum(7), JBool(TRUE), JArr(<<JStr("x")>>), JArr(<< >>), JObj(<< >>),
           JObj(<< <<"text", JNum(5)>> >>), JObj(<< <<"text", JNull>> >>),
           JObj(<< <<"Text", JStr("Engineer")>> >>),
           JObj(<< <<"name", JStr("Engineer")>> >>),
           JObj(<< <<"text", JStr("a")>>, <<"text", JStr("b")>> >>) }

RawProfile(urn, id, first, last, headline) ==
    JObj(<< <<"$type", JStr("com.linkedin.voyager.dash.identity.profile.Profile")>>,
            <<"entityUrn", JStr(urn)>>, <<"publicIdentifier", JStr(id)>>,
            <<"firstName", JStr(first)>>, <<"lastName", JStr(last)>>,
            <<"headline", JStr(headline)>> >>)

RawPosition(urn, title) ==
    JObj(<< <<"$type", JStr("com.linkedin.voyager.dash.identity.profile.Position")>>,
            <<"entityUrn", JStr(urn)>> >> \o title \o
         << <<"companyName", JStr("Acme")>> >>)

\* The included entities of the bodies a profile request is answered with:
\* positions whose title takes every wire form.
RawElementPool ==
    { RawProfile("urn:li:fsd_profile:1", "jane-doe", "Jane", "Doe", "Engineer"),
      RawProfile("urn:li:fsd_profile:2", "john", " John ", "Roe ", "CEO"),
      RawPosition("urn:li:fsd_position:1", << <<"title", JStr("Engineer")>> >>),
      RawPosition("urn:li:fsd_position:2", << <<"title", JObj(<< <<"text", JStr("Manager")>> >>)>> >>),
      RawPosition("urn:li:fsd_position:3", << <<"title", JNull>> >>),
      RawPosition("urn:li:fsd_position:4", << >>),
      RawPosition("urn:li:fsd_position:5", << <<"title", JNum(7)>> >>),
      RawPosition("urn:li:fsd_position:6", << <<"title", JArr(<<JStr("x")>>)>> >>),
      RawPosition("urn:li:fsd_position:7", << <<"title", JObj(<< <<"text", JStr("")>> >>)>> >>),
      \* an entity of a kind no resolver dispatches on, whose description is
      \* a text view model
      JObj(<< <<"$type", JStr("com.linkedin.voyager.dash.organization.Company")>>,
              <<"entityUrn", JStr("urn:li:fsd_company:1")>>,
              <<"description", JObj(<< <<"text", JStr("Makers of things")>> >>)>> >>) }

BodyOf(included) == JObj(<< <<"data", JObj(<< >>)>>, <<"included", JArr(included)>> >>)

\* The bodies a profile request is answered with: those of the entities
\* above, and payloads whose "data" member has the wire shape or a number for
\* its inner object, whose position has a date that carries its "$type" as a
\* string or as a number, and whose "included" member is given twice, or
\* three times, long, shorter and long again, as are the "$recipeTypes" of
\* a date.
ProfileBodyPool ==
    LET jane == RawProfile("urn:li:fsd_profile:1", "jane-doe", "Jane", "Doe", "Engineer")
        Data(elements) ==
            JObj(<< <<"data", JObj(<<
                <<"identityDashProfilesByMemberIdentity", JObj(<<
                    <<"*elements", elements>>,
                    <<"$type", JStr("com.linkedin.restli.common.CollectionResponse")>>
                    >>)>> >>)>> >>)
        DatedPosition(urn, start) ==
            JObj(<< <<"$type", JStr(EntityTypePosition)>>,
                    <<"entityUrn", JStr(urn)>>, <<"companyName", JStr("Acme")>>,
                    <<"dateRange", JObj(<<
                        <<"start", JObj(start)>>,
                        <<"$type", JStr("com.linkedin.common.DateRange")>> >>)>> >>)
    IN  { BodyOf(inc) : inc \in SeqsUpTo(RawElementPool, MaxBodyIncluded) }
        \cup
        { JInvalid,
          JObj(<< <<"data", Data(JArr(<<JStr("urn:li:fsd_profile:1")>>))>>,
                  <<"included", JArr(<<jane>>)>> >>),
          JObj(<< <<"data", JObj(<< <<"data", JNum(1)>> >>)>>,
                  <<"included", JArr(<<jane>>)>> >>),
          BodyOf(<<jane, DatedPosition("urn:li:fsd_position:8",
                            << <<"year", JNum(2020)>>,
                               <<"$type", JStr("com.linkedin.common.Date")>> >>)>>),
          BodyOf(<<jane, DatedPosition("urn:li:fsd_position:9",
                            << <<"year", JNum(2020)>>, <<"$type", JNum(7)>> >>)>>),
          JObj(<< <<"data", JObj(<< >>)>>,
                  <<"included", JArr(<<
                        JObj(<< <<"$type", JStr(EntityTypeProfile)>>,
                                <<"publicIdentifier", JStr("jane-doe")>>,
                                <<"firstName", JStr("Jane")>> >>) >>)>>,
                  <<"included", JArr(<< JObj(<< <<"lastName", JStr("Doe")>> >>) >>)>>
               >>),
          JObj(<< <<"data", JObj(<< >>)>>,
                  <<"included", JArr(<<jane,
                        DatedPosition("urn:li:fsd_position:8",
                            << <<"year", JNum(2020)>>,
                               <<"$recipeTypes", JArr(<<JStr("a"), JStr("b")>>)>>,
                               <<"$recipeTypes", JArr(<<JNull>>)>>,
                               <<"$recipeTypes", JArr(<<JNull, JNull>>)>> >>)>>)>>,
                  <<"included", JArr(<<JNull>>)>>,
                  <<"included", JArr(<<JNull, JNull>>)>> >>) }

RawResult(tracking, members) ==
    JObj(<< <<"$type", JStr("com.linkedin.voyager.dash.search.EntityResultViewModel")>>,
            <<"trackingUrn", JStr(tracking)>> >> \o members \o
         << <<"navigationUrl", JStr("https://www.linkedin.com/in/jane-doe")>> >>)

RawText(s) == JObj(<< <<"text", JStr(s)>> >>)

\* The "data" member of a search payload: one cluster and the paging, whose
\* start is the value given.
RawSearchData(start) ==
    JObj(<< <<"data", JObj(<<
        <<"searchDashClustersByAll", JObj(<<
            <<"metadata", JObj(<< <<"totalResultCount", JNum(1)>> >>)>>,
            <<"paging", JObj(<< <<"start", start>>, <<"count", JNum(10)>>,
                                <<"total", JNum(1)>> >>)>>,
            <<"elements", JArr(<< JObj(<<
                <<"items", JArr(<< JObj(<<
                    <<"*entityResult", JStr("urn:li:fsd_entityResultViewModel:1")>>
                    >>) >>)>>,
                <<"position", JNum(0)>>,
                <<"image", JNull>>,
                <<"title", RawText("People")>> >>) >>)>> >>)>> >>)>> >>)

SearchBodyPool ==
    { JInvalid,
      BodyOf(<< >>),
      JObj(<< <<"data", RawSearchData(JNum(0))>>, <<"included", JArr(
               << RawResult("urn:li:fsd_profile:1",
                    << <<"title", RawText("Jane Doe")>>,
                       <<"primarySubtitle", RawText("Engineer")>>,
                       <<"secondarySubtitle", RawText("Berlin")>> >>) >>)>> >>),
      JObj(<< <<"data", RawSearchData(JStr("x"))>>, <<"included", JArr(
               << RawResult("urn:li:fsd_profile:1",
                    << <<"title", RawText("Jane Doe")>>,
                       <<"primarySubtitle", RawText("Engineer")>>,
                       <<"secondarySubtitle", RawText("Berlin")>> >>) >>)>> >>),
      BodyOf(<< RawResult("urn:li:fsd_profile:1",
                    << <<"title", RawText("Jane Doe")>>,
                       <<"primarySubtitle", RawText("Engineer")>>,
                       <<"secondarySubtitle", RawText("Berlin")>> >>),
                RawProfile("urn:li:fsd_profile:1", "jane-doe", "Jane", "Doe", "Engineer") >>),
      BodyOf(<< RawResult("urn:li:fsd_profile:1",
                    << <<"title", RawText("Jane Doe")>>,
                       <<"primarySubtitle", RawText("Engineer")>> >>),
                RawResult("urn:li:fsd_profile:1",
                    << <<"title", RawText("Jane D.")>>,
                       <<"primarySubtitle", RawText("Engineer")>>,
                       <<"secondarySubtitle", RawText("Berlin")>>,
                       <<"publicIdentifier", JStr("jane-d")>> >>),
                RawResult("urn:li:fsd_profile:1",
                    << <<"title", RawText("Jane Doe")>>,
                       <<"primarySubtitle", RawText("Engineer")>>,
                       <<"secondarySubtitle", RawText("Berlin")>> >>) >>),
      BodyOf(<< RawResult("urn:li:fsd_profile:1",
                    << <<"title", JStr("Jane Doe")>>,
                       <<"primarySubtitle", RawText("Engineer")>>,
                       <<"secondarySubtitle", RawText("Berlin")>> >>) >>),
      JObj(<< <<"data", JObj(<< >>)>>,
              <<"included", JArr(
               << RawResult("urn:li:fsd_profile:1",
                    << <<"title", RawText("Jane Doe")>>,
                       <<"primarySubtitle", RawText("Engineer")>>,
                       <<"secondarySubtitle", RawText("Berlin")>> >>),
                  RawResult("urn:li:fsd_profile:2",
                    << <<"title", RawText("John Roe")>>,
                       <<"primarySubtitle", RawText("CEO")>>,
                       <<"secondarySubtitle", RawText("Paris")>> >>) >>)>>,
              <<"included", JArr(<<JNull>>)>>,
              <<"included", JArr(<<JNull, JNull>>)>> >>) }

KeywordPool == {"", "a", "a b", "a&b", "data scientist", "key:network,value:List()"}

FilterPool == {"F", "O", "F,O", "S)&v=1"}

ProfileIdPool == {"jane-doe", "john", "", "a\tb", "jane&v=1", "a#\tb", "a#%zz"}

SearchArgs(keywords, filters, start, count) ==
    [Keywords |-> keywords, NetworkFilters |-> filters, Start |-> start, Count |-> count]

InitClient ==
    /\ apiResponse = [Included |-> << >>]
    /\ publicIdentifier = ""
    /\ calls = [c \in Calls |-> NoCall]
    /\ heap = << >>
    /\ apiCall = NoApiCall
    /\ procs = << >>
    /\ frames = << >>

\* NewClient: the client, which holds the configuration it was handed and an
\* HTTP client with a timeout in seconds, and the error.
NewClient(cfg) ==
    IF cfg = Nil
    THEN [client |-> Nil, err |-> NewError("linkedinscraper: config cannot be nil")]
    ELSE [client |-> Ptr([httpClient |-> [Timeout |-> 30], config |-> cfg]),
          err |-> Nil]

NewClientCall ==
    /\ apiCall.fn = "none"
    /\ \E cfg \in {Nil} \cup { Ptr(config) : config \in ConfigPool } :
            apiCall' = [fn |-> "NewClient", cfg |-> cfg, out |-> NewClient(cfg)]
    /\ UNCHANGED <<resolverVars, concurrentVars>>

NewConfigCall ==
    /\ apiCall.fn = "none"
    /\ \E config \in ConfigPool, userAgent \in {<< >>, <<"">>, <<"custom-agent/1.0">>,
                                               <<"", "custom-agent/1.0">>} :
            apiCall' = [fn |-> "NewConfig", auth |-> config.Auth, userAgent |-> userAgent,
                        out |-> NewConfig(config.Auth, userAgent)]
    /\ UNCHANGED <<resolverVars, concurrentVars>>

UnmarshalJSONCall ==
    /\ apiCall.fn = "none"
    /\ \E data \in FlexDataPool :
            apiCall' = [fn |-> "UnmarshalJSON", data |-> data, out |-> UnmarshalJSON(data)]
    /\ UNCHANGED <<resolverVars, concurrentVars>>

ParseFromJSONBytesCall ==
    /\ apiCall.fn = "none"
    /\ \E jsonData \in ProfileBodyPool :
            apiCall' = [fn |-> "ParseFromJSON", jsonData |-> jsonData,
                        out |-> ParseFromJSON(jsonData)]
    /\ UNCHANGED <<resolverVars, concurrentVars>>

\* What a call has for a reply while httpClient.Do has not returned, and
\* when it returned without a round trip.
NoReply == [kind |-> "none", status |-> 0, body |-> JInvalid, via |-> << >>]

\* GetProfile up to the round trip: the call validates its inputs, builds
\* the URL and the request, and either returns at once, having sent nothing,
\* or hands the request to httpClient.Do and waits there for the reply.
GetProfileCall ==
    /\ apiCall.fn = "none"
    /\ \E config \in ConfigPool, id \in ProfileIdPool :
            LET \* before is the call at the round trip; of what it holds
                \* only the requests sent so far are read.
                Started(before) ==
                    IF before.requests = << >>
                    THEN [fn |-> "GetProfile", pc |-> "done", config |-> config,
                          id |-> id, reply |-> NoReply, out |-> before]
                    ELSE [fn |-> "GetProfile", pc |-> "Do", config |-> config,
                          id |-> id, sent |-> before.requests, via |-> << >>,
                          status |-> 0, encoding |-> ""]
            IN  apiCall' = Started(GetProfile(config, id, NoReply))
    /\ UNCHANGED <<resolverVars, concurrentVars>>

\* SearchProfiles up to the round trip.
SearchProfilesCall ==
    /\ apiCall.fn = "none"
    /\ \E config \in ConfigPool, keywords \in KeywordPool,
          filters \in SeqsUpTo(FilterPool, MaxFilters),
          start \in 0..MaxStart, count \in {0, 10} :
            LET args == SearchArgs(keywords, filters, start, count)
                Started(before) ==
                    IF before.requests = << >>
                    THEN [fn |-> "SearchProfiles", pc |-> "done", config |-> config,
                          args |-> args, reply |-> NoReply, out |-> before]
                    ELSE [fn |-> "SearchProfiles", pc |-> "Do", config |-> config,
                          args |-> args, sent |-> before.requests, via |-> << >>,
                          status |-> 0, encoding |-> ""]
            IN  apiCall' = Started(SearchProfiles(config, args, NoReply))
    /\ UNCHANGED <<resolverVars, concurrentVars>>

\* The servers of the model: the statuses a request may be answered with,
\* and the locations it may be redirected to, when the call has sent its
\* request and followed the redirects to the locations via. The API answers
\* with any status, a 302 that has no Location among them, or redirects to
\* the sign-in page; the sign-in page answers 200 or redirects to a page that
\* redirects to itself without end.
Server(sent, via) ==
    LET url == IF via = << >> THEN sent[1].url ELSE via[Len(via)] IN
    IF url = "https://www.linkedin.com/checkpoint/lg/login"
    THEN [statuses |-> {}, locations |-> {url}]
    ELSE IF url = "https://www.linkedin.com/uas/login"
    THEN [statuses |-> {200},
          locations |-> {"https://www.linkedin.com/checkpoint/lg/login"}]
    ELSE [statuses |-> {200, 302, 401, 403, 429, 500},
          locations |-> {"https://www.linkedin.com/uas/login"}]

\* The call once makeRequest has got the reply: the rest of the call runs
\* and the call returns.
Done(reply) ==
    IF apiCall.fn = "GetProfile"
    THEN [fn |-> "GetProfile", pc |-> "done", config |-> apiCall.config,
          id |-> apiCall.id, reply |-> reply,
          out |-> GetProfile(apiCall.config, apiCall.id, reply)]
    ELSE [fn |-> "SearchProfiles", pc |-> "done", config |-> apiCall.config,
          args |-> apiCall.args, reply |-> reply,
          out |-> SearchProfiles(apiCall.config, apiCall.args, reply)]

\* httpClient.Do, in the call that waits there, on a response that redirects:
\* the client sends the next request, to the Location; when ten requests
\* have been sent it sends no more, Do returns an error and the call returns
\* it.
DoRedirects ==
    /\ apiCall.fn \in {"GetProfile", "SearchProfiles"}
    /\ apiCall.pc = "Do"
    /\ \E location \in Server(apiCall.sent, apiCall.via).locations :
            apiCall' =
                IF 1 + Len(apiCall.via) < 10
                THEN [apiCall EXCEPT !.via = Append(@, location)]
                ELSE Done([kind |-> "redirectErr", status |-> 0, body |-> JInvalid,
                           via |-> apiCall.via])
    /\ UNCHANGED <<resolverVars, concurrentVars>>

\* makeRequest, in the call that waits at httpClient.Do: Do returns with an
\* error (a failed round trip, the 30 s timeout, a cancelled context), at the
\* first request or at one a redirect made, and the call returns it; or with
\* a response whose header has come, with Content-Encoding gzip or without,
\* and the call holds the status while the body is still to be read.
DoReturns ==
    /\ apiCall.fn \in {"GetProfile", "SearchProfiles"}
    /\ apiCall.pc = "Do"
    /\ \/ apiCall' = Done([TransportError EXCEPT !.via = apiCall.via])
       \/ \E status \in Server(apiCall.sent, apiCall.via).statuses,
             encoding \in {"", "gzip"} :
            apiCall' = [apiCall EXCEPT
                            !.pc = IF encoding = "gzip" THEN "NewReader" ELSE "ReadAll",
                            !.status = status, !.encoding = encoding]
    /\ UNCHANGED <<resolverVars, concurrentVars>>

\* makeRequest, in the call that waits in gzip.NewReader on a response with
\* Content-Encoding gzip: the reader waits for the gzip header; it cannot be
\* made and the call returns the error, or it is made and the body is still
\* to be read, through it.
NewReaderReturns ==
    /\ apiCall.fn \in {"GetProfile", "SearchProfiles"}
    /\ apiCall.pc = "NewReader"
    /\ \/ apiCall' = Done([kind |-> "gzipErr", status |-> apiCall.status,
                           body |-> JInvalid, via |-> apiCall.via])
       \/ apiCall' = [apiCall EXCEPT !.pc = "ReadAll"]
    /\ UNCHANGED <<resolverVars, concurrentVars>>

\* makeRequest from io.ReadAll on, and the rest of the call: io.ReadAll waits
\* on the connection until the body is read or fails; then the call
\* dispatches on the status, decodes the body and returns. The body is one of
\* the pool when the status is 200; a page the API redirected to is read as a
\* text that is no JSON, or as a payload without entities.
ReadAllReturns ==
    /\ apiCall.fn \in {"GetProfile", "SearchProfiles"}
    /\ apiCall.pc = "ReadAll"
    /\ \/ apiCall' = Done([kind |-> "readErr", status |-> apiCall.status,
                           body |-> JInvalid, via |-> apiCall.via])
       \/ \E body \in (IF apiCall.status # 200 THEN {JStr("denied")}
                        ELSE IF apiCall.via # << >> THEN {JInvalid, BodyOf(<< >>)}
                        ELSE IF apiCall.fn = "GetProfile" THEN ProfileBodyPool
                        ELSE SearchBodyPool) :
            apiCall' = Done([Response(apiCall.status, body) EXCEPT !.via = apiCall.via])
    /\ UNCHANGED <<resolverVars, concurrentVars>>

NextClient ==
    \/ NewConfigCall
    \/ NewClientCall
    \/ UnmarshalJSONCall
    \/ ParseFromJSONBytesCall
    \/ GetProfileCall
    \/ SearchProfilesCall
    \/ DoRedirects
    \/ DoReturns
    \/ NewReaderReturns
    \/ ReadAllReturns

SpecClient == InitClient /\ [][NextClient]_vars

(***************************************************************************)
(* Concurrent callers. Each caller runs one call of                        *)
(* parseProfileFromAPIResponse, buildGraphQLURL or buildProfileGraphQLURL  *)
(* on its own input, one statement or loop iteration at a time, and the    *)
(* callers' steps interleave freely. A call's locals and the profile it    *)
(* allocates live in the frame of the call.                                *)
(***************************************************************************)
Procs == {1, 2}

\* A variant in which every call works in the same frame.
FrameOf_Shared(p) == 1

\* The frame of caller p's call: locals and allocations are per call.
FrameOf(p) == p

\* A call about to start: what it runs, its arguments, where it stands, the
\* loop index, the index of the anchor, the steps it has taken (a statement,
\* an iteration of its own loop, or one pass of a helper over included), and
\* what it returned.
Proc(kind, response, id, variables) ==
    [kind |-> kind, response |-> response, id |-> id, variables |-> variables,
     pc |-> IF kind = "resolve" THEN "scan" ELSE "parse",
     i |-> 1, anchor |-> 0, steps |-> 0, result |-> Nil]

\* The calls a caller may make.
StartPool ==
    LET jane == ProfileElement("urn:li:fsd_profile:1", "jane-doe", "Jane", "Doe", "Engineer")
        john == ProfileElement("urn:li:fsd_profile:2", "john", " John", "Roe@ ", " CEO")
        position == PositionElement("urn:li:fsd_profilePosition:1", Ptr("Engineer"), "Acme",
                        Ptr([Start |-> Ptr(DateResponse(2020, 1, 0)), End |-> Nil,
                           RecipeTypes |-> [len |-> 0, array |-> << >>],
                           Type |-> ""]))
        education == EducationElement("urn:li:fsd_profileEducation:1", "MIT", "BSc",
                        Ptr([Start |-> Nil, End |-> Ptr(DateResponse(2019, 6, 1)),
                           RecipeTypes |-> [len |-> 0, array |-> << >>],
                           Type |-> ""]))
        none == SearchVariablesOf(SearchArgs("", << >>, 0, 0))
        \* two entities that name each other by URN
        janeAtPosition == [jane EXCEPT !.TrackingURN = position.EntityURN]
        positionAtJane == [position EXCEPT !.CompanyURN = jane.EntityURN]
    IN  { Proc("resolve", [Included |-> inc], id, none) :
            inc \in { <<jane, position>>, <<position, john, education, jane>>,
                      <<positionAtJane, janeAtPosition>> },
            id \in {"jane-doe", "john"} }
        \cup { Proc("encode", [Included |-> << >>], "", SearchVariablesOf(args)) :
                args \in { SearchArgs("a", << >>, 0, 0),
                           SearchArgs("data scientist", <<"F", "O">>, 1, 10),
                           SearchArgs("a&b", <<"O">>, 0, 0) } }
        \cup { Proc("encodeProfile", [Included |-> << >>], id, none) :
                id \in {"jane-doe", "john"} }

InitConcurrent ==
    /\ apiResponse = [Included |-> << >>]
    /\ publicIdentifier = ""
    /\ calls = [c \in Calls |-> NoCall]
    /\ heap = << >>
    /\ apiCall = NoApiCall
    /\ procs \in [Procs -> StartPool]
    /\ frames = [f \in Procs |->
                    [profile |-> ZeroProfile, queryParams |-> << >>,
                     variablesString |-> ""]]

\* A variant of the scan that, on an entity that is not the anchor, goes on
\* at the entity it names by URN when it names one.
Scan_FollowsReferences(p) ==
    LET c == procs[p]
        inc == c.response.Included
        Named(item) == { j \in DOMAIN inc :
                            inc[j].EntityURN \in {item.TrackingURN, item.CompanyURN} }
    IN  /\ c.kind = "resolve" /\ c.pc = "scan"
        /\ procs' = [procs EXCEPT ![p] =
                IF c.i > Len(inc)
                THEN [c EXCEPT !.pc = "done", !.steps = c.steps + 1,
                               !.result = Outcome(Nil,
                                    <<"profile not found in API response for publicIdentifier: "
                                      \o c.id>>)]
                ELSE IF inc[c.i].Type = EntityTypeProfile /\ inc[c.i].PublicIdentifier = c.id
                THEN [c EXCEPT !.pc = "build", !.anchor = c.i, !.steps = c.steps + 1]
                ELSE IF Named(inc[c.i]) # {}
                THEN [c EXCEPT !.i = CHOOSE j \in Named(inc[c.i]) : TRUE,
                               !.steps = c.steps + 1]
                ELSE [c EXCEPT !.i = c.i + 1, !.steps = c.steps + 1]]
        /\ UNCHANGED <<resolverVars, apiCall, frames>>

\* One iteration of the anchor scan of parseProfileFromAPIResponse, and the
\* return of the error when the scan has found nothing.
Scan(p) ==
    LET c == procs[p]
        inc == c.response.Included
    IN  /\ c.kind = "resolve" /\ c.pc = "scan"
        /\ procs' = [procs EXCEPT ![p] =
                IF c.i > Len(inc)
                THEN [c EXCEPT !.pc = "done", !.steps = c.steps + 1,
                               !.result = Outcome(Nil,
                                    <<"profile not found in API response for publicIdentifier: "
                                      \o c.id>>)]
                ELSE IF inc[c.i].Type = EntityTypeProfile /\ inc[c.i].PublicIdentifier = c.id
                THEN [c EXCEPT !.pc = "build", !.anchor = c.i, !.steps = c.steps + 1]
                ELSE [c EXCEPT !.i = c.i + 1, !.steps = c.steps + 1]]
        /\ UNCHANGED <<resolverVars, apiCall, frames>>

\* profile := &LinkedInProfile{...}, then profile.FullName = ..., which reads
\* the names back from the profile.
Build(p) ==
    LET c == procs[p]
        profileEntity == c.response.Included[c.anchor]
        profile == frames[FrameOf(p)].profile
    IN  /\ c.kind = "resolve" /\ c.pc \in {"build", "fullName"}
        /\ frames' = [frames EXCEPT ![FrameOf(p)].profile =
                IF c.pc = "build"
                THEN [ZeroProfile EXCEPT
                        !.PublicIdentifier = profileEntity.PublicIdentifier,
                        !.URN = profileEntity.EntityURN,
                        !.FirstName = profileEntity.FirstName,
                        !.LastName = profileEntity.LastName,
                        !.Headline = profileEntity.Headline,
                        !.ProfileURL = "https://www.linkedin.com/in/" \o c.id \o "/"]
                ELSE [profile EXCEPT !.FullName = FullNameOf(profile.FirstName,
                                                             profile.LastName)]]
        /\ procs' = [procs EXCEPT ![p].pc = IF c.pc = "build" THEN "fullName"
                                            ELSE "experience",
                                  ![p].steps = c.steps + 1]
        /\ UNCHANGED <<resolverVars, apiCall>>

\* The six assignments profile.X = parseXData(apiResponse, profileEntity.EntityURN).
Attach(p) ==
    LET c == procs[p]
        urn == c.response.Included[c.anchor].EntityURN
        profile == frames[FrameOf(p)].profile
    IN  /\ c.kind = "resolve"
        /\ c.pc \in {"experience", "education", "skills", "location", "connection", "picture"}
        /\ frames' = [frames EXCEPT ![FrameOf(p)].profile =
                CASE c.pc = "experience" ->
                        [profile EXCEPT !.Experience = parseExperienceData(c.response, urn)]
                  [] c.pc = "education" ->
                        [profile EXCEPT !.Education = parseEducationData(c.response, urn)]
                  [] c.pc = "skills" ->
                        [profile EXCEPT !.Skills = parseSkillsData(c.response, urn)]
                  [] c.pc = "location" ->
                        [profile EXCEPT !.LocationDetails = parseLocationData(c.response, urn)]
                  [] c.pc = "connection" ->
                        [profile EXCEPT !.ConnectionInfo = parseConnectionData(c.response, urn)]
                  [] c.pc = "picture" ->
                        [profile EXCEPT !.ProfilePicture =
                                            parseProfilePictureData(c.response, urn)]]
        /\ procs' = [procs EXCEPT ![p].pc =
                CASE c.pc = "experience" -> "education"
                  [] c.pc = "education" -> "skills"
                  [] c.pc = "skills" -> "location"
                  [] c.pc = "location" -> "connection"
                  [] c.pc = "connection" -> "picture"
                  [] c.pc = "picture" -> "return",
                                  ![p].steps = c.steps + 1]
        /\ UNCHANGED <<resolverVars, apiCall>>

\* parseSimpleProfileFields, which writes nothing (extractFieldFromRawJSON
\* finds no field), and return profile, nil: the caller receives the profile
\* the call built.
Return(p) ==
    /\ procs[p].kind = "resolve" /\ procs[p].pc = "return"
    /\ procs' = [procs EXCEPT ![p].pc = "done", ![p].steps = @ + 1,
                              ![p].result = Outcome(Ptr(frames[FrameOf(p)].profile), Nil)]
    /\ UNCHANGED <<resolverVars, apiCall, frames>>

\* url.Parse(baseURL) and the declaration of queryParams.
ParseURL(p) ==
    LET c == procs[p]
    IN  /\ c.kind \in {"encode", "encodeProfile"} /\ c.pc = "parse"
        /\ IF ParseError(VoyagerBaseURL) # Nil
           THEN /\ procs' = [procs EXCEPT ![p].pc = "done", ![p].steps = c.steps + 1,
                        ![p].result = [url |-> "",
                            err |-> <<"failed to parse base URL">>
                                        \o ParseError(VoyagerBaseURL)]]
                /\ UNCHANGED frames
           ELSE /\ procs' = [procs EXCEPT ![p].pc = IF c.kind = "encode" THEN "params"
                                                    ELSE "format",
                                             ![p].steps = c.steps + 1]
                /\ frames' = [frames EXCEPT ![FrameOf(p)].queryParams = << >>]
        /\ UNCHANGED <<resolverVars, apiCall>>

\* One iteration of buildGraphQLURL's loop over the query parameters.
AppendParam(p) ==
    LET c == procs[p]
        params == c.variables.Query.QueryParameters
    IN  /\ c.kind = "encode" /\ c.pc = "params" /\ c.i <= Len(params)
        /\ frames' = [frames EXCEPT ![FrameOf(p)].queryParams =
                            Append(@, QueryParamString(params[c.i]))]
        /\ procs' = [procs EXCEPT ![p].i = c.i + 1, ![p].steps = c.steps + 1]
        /\ UNCHANGED <<resolverVars, apiCall>>

\* variablesString := fmt.Sprintf(...), of either encoder.
Format(p) ==
    LET c == procs[p]
    IN  /\ \/ c.kind = "encode" /\ c.pc = "params"
                /\ c.i > Len(c.variables.Query.QueryParameters)
           \/ c.kind = "encodeProfile" /\ c.pc = "format"
        /\ frames' = [frames EXCEPT ![FrameOf(p)].variablesString =
                IF c.kind = "encode"
                THEN FormatVariables(c.variables, frames[FrameOf(p)].queryParams)
                ELSE "(memberIdentity:{publicIdentifier:" \o c.id \o "})"]
        /\ procs' = [procs EXCEPT ![p].pc = "query", ![p].steps = c.steps + 1]
        /\ UNCHANGED <<resolverVars, apiCall>>

\* The encoded base query, the raw query and the return of the URL.
FinishURL(p) ==
    LET c == procs[p]
        queryID == IF c.kind = "encode" THEN DefaultSearchQueryID ELSE DefaultProfileQueryID
    IN  /\ c.kind \in {"encode", "encodeProfile"} /\ c.pc = "query"
        /\ procs' = [procs EXCEPT ![p].pc = "done", ![p].steps = c.steps + 1,
                ![p].result = [url |-> VoyagerBaseURL \o "?" \o EncodedBaseQuery(queryID)
                                        \o "&variables="
                                        \o frames[FrameOf(p)].variablesString,
                               err |-> Nil]]
        /\ UNCHANGED <<resolverVars, apiCall, frames>>

NextConcurrent ==
    \/ \E p \in Procs : Scan(p)
    \/ \E p \in Procs : Build(p)
    \/ \E p \in Procs : Attach(p)
    \/ \E p \in Procs : Return(p)
    \/ \E p \in Procs : ParseURL(p)
    \/ \E p \in Procs : AppendParam(p)
    \/ \E p \in Procs : Format(p)
    \/ \E p \in Procs : FinishURL(p)

SpecConcurrent == InitConcurrent /\ [][NextConcurrent]_vars

\* The next step of caller p's resolve call.
ResolveStep(p) == Scan(p) \/ Build(p) \/ Attach(p) \/ Return(p)

\* A caller that can take a step of its resolve call takes it: the call runs
\* on its caller's goroutine and waits for nothing.
SpecTermination == SpecConcurrent /\ \A p \in Procs : WF_vars(ResolveStep(p))

(***************************************************************************)
(* Claims about the resolver.                                              *)
(***************************************************************************)
\* The calls that have returned, and those that returned a profile.
\* A call of the client that has returned.
Finished(fn) == apiCall.fn = fn /\ apiCall.pc = "done"

Returned == { c \in Calls : calls[c].fn # "none" }

ReturnedProfile == { c \in Returned : calls[c].out.profile # Nil }

ProfileOf(c) == Deref(calls[c].out.profile)

\* The indices of the included entities that satisfy Kind, and the k-th
\* smallest of a set of indices.
IndicesOf(included, Kind(_)) == { i \in DOMAIN included : Kind(included[i]) }

NthOf(S, k) == CHOOSE i \in S : Cardinality({ j \in S : j < i }) = k - 1

IsPosition(item) == item.Type = EntityTypePosition

IsEducation(item) == item.Type = EntityTypeEducation

IsSkill(item) == Contains(item.Type, EntityTypeEndorsedSkill)

\* collection is, entry for entry, the included entities of one kind in the
\* order of the included array.
InIncludedOrder(collection, included, Kind(_)) ==
    LET S == IndicesOf(included, Kind) IN
    /\ Len(collection) = Cardinality(S)
    /\ \A k \in 1..Len(collection) :
          collection[k].EntityURN = included[NthOf(S, k)].EntityURN

\* C1: every returned profile's experience, education and skills are exactly
\* the included Position, Education and skill entities, one entry each, in
\* the order of the included array.
C1_CollectionsInIncludedOrder ==
    \A c \in ReturnedProfile :
        /\ InIncludedOrder(ProfileOf(c).Experience, apiResponse.Included, IsPosition)
        /\ InIncludedOrder(ProfileOf(c).Education, apiResponse.Included, IsEducation)
        /\ InIncludedOrder(ProfileOf(c).Skills, apiResponse.Included, IsSkill)

\* C1 witness: a call returned a profile whose experience holds two different
\* positions, the second of the pool first.
C1_Witness ==
    \E c \in ReturnedProfile :
        /\ calls[c].fn = "parse"
        /\ Len(ProfileOf(c).Experience) = 2
        /\ ProfileOf(c).Experience[1].EntityURN = "urn:li:fsd_profilePosition:2"
        /\ ProfileOf(c).Experience[2].EntityURN = "urn:li:fsd_profilePosition:1"

\* Whether included holds a Profile entity whose identifier is id.
HasAnchor(included, id) ==
    \E i \in DOMAIN included :
        included[i].Type = EntityTypeProfile /\ included[i].PublicIdentifier = id

\* C2: when no included Profile entity carries the requested identifier,
\* parseProfileFromAPIResponse and convertAPIResponseToLinkedInProfile return
\* a nil profile and the not-found error, and GetProfile, on the body decoded
\* into that payload, returns a nil profile and the not-found error wrapped
\* in "failed to extract profile from response".
C2_MissingAnchorIsNotFound ==
    \A c \in Returned :
        (calls[c].fn \in {"parse", "convert", "getProfile"}
            /\ ~HasAnchor(apiResponse.Included, publicIdentifier))
        => /\ calls[c].out.profile = Nil
           /\ calls[c].ptr = Nil
           /\ calls[c].out.err =
                (IF calls[c].fn = "getProfile"
                 THEN <<"failed to extract profile from response">> ELSE << >>)
                \o <<"profile not found in API response for publicIdentifier: "
                        \o publicIdentifier>>

\* C2 witness: a convert call and GetProfile returned on a payload that
\* holds a Profile entity, but none with the requested identifier.
C2_Witness ==
    /\ calls[1].fn = "convert"
    /\ calls[2].fn = "getProfile"
    /\ publicIdentifier = "john"
    /\ ~HasAnchor(apiResponse.Included, publicIdentifier)
    /\ \E i \in DOMAIN apiResponse.Included :
          apiResponse.Included[i].Type = EntityTypeProfile
    /\ calls[1].out.err # Nil
    /\ calls[2].out.err[1] = "failed to extract profile from response"

\* The identifier ParseFromJSON resolves: that of the first Profile entity
\* that has one.
FirstIdentified(included) ==
    LET S == { i \in DOMAIN included :
                 included[i].Type = EntityTypeProfile
                    /\ included[i].PublicIdentifier # "" }
    IN  IF S = {} THEN "" ELSE included[NthOf(S, 1)].PublicIdentifier

RequestedBy(c) ==
    IF calls[c].fn = "fromJSON" THEN FirstIdentified(apiResponse.Included)
    ELSE publicIdentifier

\* C3: a profile returned by convertAPIResponseToLinkedInProfile, by
\* ParseFromJSON or by GetProfile carries a non-empty PublicIdentifier, the
\* requested one, and comes without an error; and a call whose requested
\* identifier is empty returns an error and no profile (GetProfile is not
\* reached with one: it refuses it before its request).
C3_ReturnedProfileHasIdentifier ==
    \A c \in Returned :
        calls[c].fn \in {"convert", "fromJSON", "getProfile"} =>
            /\ calls[c].out.profile # Nil =>
                  /\ ProfileOf(c).PublicIdentifier # ""
                  /\ ProfileOf(c).PublicIdentifier = RequestedBy(c)
                  /\ calls[c].out.err = Nil
            /\ RequestedBy(c) = "" =>
                  calls[c].out.profile = Nil /\ calls[c].out.err # Nil

\* C3 witness: GetProfile returned the profile of the identifier it was
\* asked for, "john", and ParseFromJSON on the same payload that of the
\* first entity that has an identifier, "jane-doe".
C3_Witness ==
    /\ publicIdentifier = "john"
    /\ calls[1].fn = "getProfile"
    /\ calls[1].out.profile # Nil
    /\ ProfileOf(1).PublicIdentifier = "john"
    /\ calls[2].fn = "fromJSON"
    /\ calls[2].out.profile # Nil
    /\ ProfileOf(2).PublicIdentifier = "jane-doe"

\* The anchor of a call that found one: the first Profile entity carrying the
\* requested identifier.
AnchorOf(c) ==
    LET inc == apiResponse.Included
        S == { i \in DOMAIN inc : inc[i].Type = EntityTypeProfile
                                    /\ inc[i].PublicIdentifier = RequestedBy(c) }
    IN  inc[NthOf(S, 1)]

FirstChar(s) == SubSeq(s, 1, 1)

LastChar(s) == SubSeq(s, Len(s), Len(s))

AllSpace(s) == \A i \in 1..Len(s) : IsSpace(SubSeq(s, i, i))

\* t is s without its leading and trailing whitespace.
IsTrimOf(t, s) ==
    /\ t # "" => ~IsSpace(FirstChar(t)) /\ ~IsSpace(LastChar(t))
    /\ \E i \in 1..(Len(s) + 1) :
          /\ i + Len(t) - 1 <= Len(s)
          /\ SubSeq(s, i, i + Len(t) - 1) = t
          /\ AllSpace(SubSeq(s, 1, i - 1))
          /\ AllSpace(SubSeq(s, i + Len(t), Len(s)))

\* C4 as stated: with a non-empty first name F and a non-empty last name L
\* on the anchor, FullName is F, one space, L.
C4_FullNameIsFirstSpaceLast ==
    \A c \in ReturnedProfile :
        (AnchorOf(c).FirstName # "" /\ AnchorOf(c).LastName # "")
        => ProfileOf(c).FullName = AnchorOf(c).FirstName \o " " \o AnchorOf(c).LastName

\* t is s without its NUL characters and then without its leading and
\* trailing whitespace.
IsSanitizedOf(t, s) ==
    LET S == { i \in 1..Len(s) : SubSeq(s, i, i) # NUL }
        At(k) == SubSeq(s, NthOf(S, k), NthOf(S, k))
        n == Cardinality(S)
    IN  /\ t # "" => ~IsSpace(FirstChar(t)) /\ ~IsSpace(LastChar(t))
        /\ \E a \in 1..(n + 1) :
              /\ a + Len(t) - 1 <= n
              /\ \A k \in 1..Len(t) : SubSeq(t, k, k) = At(a + k - 1)
              /\ \A k \in 1..(a - 1) : IsSpace(At(k))
              /\ \A k \in (a + Len(t))..n : IsSpace(At(k))

\* C4 as amended: with a non-empty F and L on the anchor, the FullName
\* parseProfileFromAPIResponse returns is F, one space, L without its
\* leading and trailing whitespace, which is F, one space, L exactly when F
\* does not start and L does not end with whitespace; the FullName
\* convertAPIResponseToLinkedInProfile, ParseFromJSON and GetProfile return
\* is that string without its NUL characters and trimmed again, which is F,
\* one space, L exactly when, besides, neither name holds a NUL; "Jane",
\* "Doe" with two position entities gives "Jane Doe" and an experience of
\* length 2.
C4_FullNameIsTrimmedFirstSpaceLast ==
    \A c \in ReturnedProfile :
        LET F == AnchorOf(c).FirstName
            L == AnchorOf(c).LastName
            untrimmed == ~IsSpace(FirstChar(F)) /\ ~IsSpace(LastChar(L))
        IN  (F # "" /\ L # "") =>
              /\ calls[c].fn = "parse" =>
                    /\ IsTrimOf(ProfileOf(c).FullName, F \o " " \o L)
                    /\ (ProfileOf(c).FullName = F \o " " \o L) <=> untrimmed
              /\ calls[c].fn \in {"convert", "fromJSON", "getProfile"} =>
                    /\ IsSanitizedOf(ProfileOf(c).FullName, F \o " " \o L)
                    /\ (ProfileOf(c).FullName = F \o " " \o L)
                            <=> (untrimmed /\ ~Contains(F \o L, NUL))
              /\ (F = "Jane" /\ L = "Doe"
                    /\ Cardinality(IndicesOf(apiResponse.Included, IsPosition)) = 2)
                    => /\ ProfileOf(c).FullName = "Jane Doe"
                       /\ Len(ProfileOf(c).Experience) = 2

\* C4 witness: the anchor has the first name " John " and the last name
\* "Roe", a NUL and a space; parseProfileFromAPIResponse returned the
\* trimmed FullName, which keeps the NUL, and GetProfile the sanitised one.
C4_Witness ==
    /\ publicIdentifier = "john"
    /\ calls[1].fn = "parse" /\ calls[2].fn = "getProfile"
    /\ calls[1].out.profile # Nil /\ calls[2].out.profile # Nil
    /\ AnchorOf(1).FirstName = " John " /\ AnchorOf(1).LastName = "Roe" \o NUL \o " "
    /\ ProfileOf(1).FullName = "John  Roe" \o NUL
    /\ ProfileOf(2).FullName = "John  Roe"

\* C7: two calls of the same entry point on the same payload and identifier
\* return the same outcome, profile and error alike; the profiles they
\* return are two objects, and field for field the same as they stand in
\* memory.
C7_SameInputSameOutcome ==
    \A c1, c2 \in Returned :
        calls[c1].fn = calls[c2].fn =>
            /\ calls[c1].out = calls[c2].out
            /\ calls[c1].ptr = Nil <=> calls[c2].ptr = Nil
            /\ (c1 # c2 /\ calls[c1].ptr # Nil) =>
                  /\ calls[c1].ptr # calls[c2].ptr
                  /\ Load(Memory(apiResponse, heap), calls[c1].ptr)
                        = Load(Memory(apiResponse, heap), calls[c2].ptr)

\* C7 witness: both calls ran convertAPIResponseToLinkedInProfile on an
\* anchor whose names the sanitisation changes, and returned a profile.
C7_Witness ==
    /\ Returned = Calls
    /\ publicIdentifier = "john"
    /\ \A c \in Calls : calls[c].fn = "convert" /\ calls[c].out.profile # Nil
    /\ ProfileOf(1).FullName = "John  Roe"
    /\ ProfileOf(2).FullName = "John  Roe"


(***************************************************************************)
(* Claims about the Flexible Text decoder.                                 *)
(***************************************************************************)
\* A wrapped text object: exactly {"text": s} for a string s.
IsWrapped(data) ==
    /\ data.kind = "object"
    /\ Len(data.items) = 1
    /\ data.items[1][1] = "text"
    /\ data.items[1][2].kind = "string"

\* C5: UnmarshalJSON decodes a bare string s to s, a wrapped object
\* {"text": s} to s and null to the empty string, for every string s, and
\* never fails on any of the three.
C5_ThreeFormsNormalizeToPlainString ==
    apiCall.fn = "UnmarshalJSON" =>
        /\ apiCall.data.kind = "string" =>
              apiCall.out = [ft |-> apiCall.data.str, err |-> Nil]
        /\ IsWrapped(apiCall.data) =>
              apiCall.out = [ft |-> apiCall.data.items[1][2].str, err |-> Nil]
        /\ apiCall.data.kind = "null" =>
              apiCall.out = [ft |-> "", err |-> Nil]

\* A JSON text that is neither a string, nor an object, nor null.
WrongShape(data) == data.kind \in {"number", "array", "bool"}

FlexibleTextKeys == {"title", "primarySubtitle", "secondarySubtitle", "badgeText"}

\* Whether an entity of the body's included array has a Flexible Text field
\* of the wrong shape.
HasWrongShapeField(body) ==
    /\ body.kind = "object"
    /\ \E m \in DOMAIN body.items :
          /\ body.items[m][1] = "included"
          /\ body.items[m][2].kind = "array"
          /\ \E e \in DOMAIN body.items[m][2].items :
                LET entity == body.items[m][2].items[e] IN
                /\ entity.kind = "object"
                /\ \E f \in DOMAIN entity.items :
                      /\ entity.items[f][1] \in FlexibleTextKeys
                      /\ WrongShape(entity.items[f][2])

\* A GetProfile call that received a 200 response.
GotProfileResponse ==
    /\ Finished("GetProfile")
    /\ apiCall.out.requests # << >>
    /\ apiCall.reply.kind = "response"
    /\ apiCall.reply.status = 200

\* C6 as stated: a Flexible Text of the wrong shape decodes to the empty
\* value without an error, and a payload that holds one is still decoded.
C6_WrongShapeIsAbsent ==
    /\ (apiCall.fn = "UnmarshalJSON" /\ WrongShape(apiCall.data))
          => apiCall.out = [ft |-> "", err |-> Nil]
    /\ (GotProfileResponse /\ HasWrongShapeField(apiCall.reply.body))
          => ~Is(apiCall.out.err, ErrResponseParseFailed)

(***************************************************************************)
(* Claims about the query encoder.                                         *)
(***************************************************************************)
\* The first index at which sub occurs in s, 0 when it does not.
IndexOfSub(s, sub) ==
    LET at == { i \in 1..(Len(s) - Len(sub) + 1) : SubSeq(s, i, i + Len(sub) - 1) = sub }
    IN  IF at = {} THEN 0 ELSE CHOOSE i \in at : \A j \in at : i <= j

\* An index from i on at which sub occurs in s, 0 when there is none.
IndexFrom(s, sub, i) ==
    IF \E j \in i..(Len(s) - Len(sub) + 1) : SubSeq(s, j, j + Len(sub) - 1) = sub
    THEN CHOOSE j \in i..(Len(s) - Len(sub) + 1) : SubSeq(s, j, j + Len(sub) - 1) = sub
    ELSE 0

\* s after, and before, the first occurrence of marker.
After(s, marker) ==
    LET i == IndexOfSub(s, marker)
    IN  IF i = 0 THEN "" ELSE SubSeq(s, i + Len(marker), Len(s))

Before(s, marker) ==
    LET i == IndexOfSub(s, marker)
    IN  IF i = 0 THEN s ELSE SubSeq(s, 1, i - 1)

\* The entries of a comma-separated list.
RECURSIVE Entries(_)
Entries(s) ==
    IF IndexOfSub(s, ",") = 0 THEN <<s>>
    ELSE <<Before(s, ",")>> \o Entries(After(s, ","))

\* A SearchProfiles call that sent its request, and the variables fragment
\* of that request's URL.
SearchIssued == Finished("SearchProfiles") /\ apiCall.out.requests # << >>

Fragment == After(apiCall.out.requests[1].url, "&variables=")

\* The text of the List(...) of the network filter in the fragment.
NetworkList == Before(After(Fragment, "(key:network,value:List("), ")")

\* C8 as stated: for n >= 1 network filter values the fragment holds a
\* List(...) for the network key whose comma-separated entries are exactly
\* the n input values, in input order.
C8_NetworkListIsTheInput ==
    (SearchIssued /\ Len(apiCall.args.NetworkFilters) >= 1) =>
        /\ Contains(Fragment, "(key:network,value:List(")
        /\ Entries(NetworkList) = apiCall.args.NetworkFilters

PlainValue(v) == ~Contains(v, ",") /\ ~Contains(v, ")")

\* C8 as amended: the same, for n >= 1 values none of which holds a comma or
\* a closing parenthesis.
C8_NetworkListIsThePlainInput ==
    (SearchIssued /\ Len(apiCall.args.NetworkFilters) >= 1
        /\ \A i \in DOMAIN apiCall.args.NetworkFilters :
                PlainValue(apiCall.args.NetworkFilters[i])) =>
        /\ Contains(Fragment, "(key:network,value:List(")
        /\ Entries(NetworkList) = apiCall.args.NetworkFilters
        /\ Len(Entries(NetworkList)) = Len(apiCall.args.NetworkFilters)

\* C8 witness: a search with the filters O, F was sent with List(O,F).
C8_Witness ==
    /\ SearchIssued
    /\ apiCall.args.NetworkFilters = <<"O", "F">>
    /\ Contains(Fragment, "(key:network,value:List(O,F))")

\* C9: with an empty network filter list the request is built and sent, its
\* fragment has no entry for the key network and no empty List(), and a
\* search answered with an empty result set returns without an error.
C9_EmptyNetworkFilterIsOmitted ==
    (Finished("SearchProfiles")
        /\ apiCall.config.Auth.LiAtCookie # "" /\ apiCall.config.Auth.CSRFToken # ""
        /\ apiCall.args.Keywords # ""
        /\ apiCall.args.NetworkFilters = << >>) =>
        /\ Len(apiCall.out.requests) = 1
        /\ ~Contains(Fragment, "key:network")
        /\ ~Contains(Fragment, "List()")
        /\ ~Is(apiCall.out.err, ErrRequestBuildFailed)
        /\ apiCall.reply = Response(200, BodyOf(<< >>))
              => apiCall.out.err = Nil /\ apiCall.out.value = Ptr(<< >>)

\* C9 witness: a search without a network filter was sent and returned an
\* empty list and no error.
C9_Witness ==
    /\ SearchIssued
    /\ apiCall.args.NetworkFilters = << >>
    /\ apiCall.out.err = Nil
    /\ Contains(Fragment, "queryParameters:List((key:resultType,value:List(PEOPLE)))")

\* The search of the scenario: keywords "data scientist", network filters
\* F and O, start 0.
ScenarioIssued ==
    /\ SearchIssued
    /\ apiCall.args.Keywords = "data scientist"
    /\ apiCall.args.NetworkFilters = <<"F", "O">>
    /\ apiCall.args.Start = 0

\* C10 as stated: the fragment of the scenario contains
\* keywords:data%20scientist, network:List(F,O) and start:0.
C10_ScenarioFragmentAsStated ==
    ScenarioIssued =>
        /\ Contains(Fragment, "keywords:data%20scientist")
        /\ Contains(Fragment, "network:List(F,O)")
        /\ Contains(Fragment, "start:0")

\* The pieces of s between the occurrences of sep.
RECURSIVE SplitOn(_, _)
SplitOn(s, sep) ==
    IF IndexOfSub(s, sep) = 0 THEN <<s>>
    ELSE <<Before(s, sep)>> \o SplitOn(After(s, sep), sep)

\* A GetProfile or SearchProfiles call that sent its request, and the query
\* string of that request's URL as a server reads it: what follows the first
\* "?", cut into parameters at each "&", each parameter's key ending at its
\* first "=".
RequestIssued ==
    (Finished("GetProfile") \/ Finished("SearchProfiles")) /\ apiCall.out.requests # << >>

QueryString == After(apiCall.out.requests[1].url, "?")

QueryKeys ==
    LET params == SplitOn(QueryString, "&")
    IN  [i \in DOMAIN params |-> Before(params[i], "=")]

\* C11: the query string of every request URL consists of exactly the three
\* parameters includeWebMetadata, queryId and variables, whatever the
\* keywords, the filter values and the public identifier are: no character of
\* an input cuts the query string into further parameters.
C11_QueryHasExactlyThreeParameters ==
    RequestIssued => QueryKeys = <<"includeWebMetadata", "queryId", "variables">>

\* Whether the keys from the i-th on occur in f one after the other, the
\* first of them at or after position from.
RECURSIVE InOrderFrom(_, _, _, _)
InOrderFrom(f, keys, i, from) ==
    LET Found(at) == at > 0 /\ InOrderFrom(f, keys, i + 1, at + Len(keys[i]))
    IN  i > Len(keys) \/ Found(IndexFrom(f, keys[i], from))

\* C12: the fragment of every search request opens with start (the value of
\* args.Start, 0 when it was not given), and its keys come in the order
\* start, count, origin, query, keywords, flagshipSearchIntent,
\* queryParameters, includeFiltersInResponse; within queryParameters the
\* network entry, when there is one, comes first and the resultType entry,
\* which is always there, after it.
C12_KeysInFixedOrder ==
    LET InOrder(f) ==
            /\ SubSeq(f, 1, Len(Itoa(apiCall.args.Start)) + 8)
                    = "(start:" \o Itoa(apiCall.args.Start) \o ","
            /\ InOrderFrom(f,
                    << "(start:", ",count:", ",origin:", ",query:(keywords:",
                       ",flagshipSearchIntent:" >>
                    \o (IF apiCall.args.NetworkFilters # << >>
                        THEN << ",queryParameters:List((key:network,", ",(key:resultType," >>
                        ELSE << ",queryParameters:List((key:resultType," >>)
                    \o << ",includeFiltersInResponse:" >>, 1, 1)
    IN  SearchIssued => InOrder(Fragment)

\* C12 witness: a search with start 1 and two network filters was sent; its
\* fragment opens with start:1 and holds the network entry.
C12_Witness ==
    /\ SearchIssued
    /\ apiCall.args.Start = 1
    /\ apiCall.args.NetworkFilters = <<"F", "O">>
    /\ Before(Fragment, ",") = "(start:1"
    /\ Contains(Fragment, "(key:network,")

\* A SearchProfiles call on a client that has both credentials.
SearchWithCredentials ==
    /\ Finished("SearchProfiles")
    /\ apiCall.config.Auth.LiAtCookie # ""
    /\ apiCall.config.Auth.CSRFToken # ""

\* C13: on a client with both credentials SearchProfiles returns
\* ErrKeywordsMissing exactly when the keywords are empty, and with keywords
\* the request is built and sent whatever the optional arguments are: an
\* empty filter list, start 0 or count 0 never gives ErrRequestBuildFailed.
C13_OnlyKeywordsAreRequired ==
    SearchWithCredentials =>
        /\ Is(apiCall.out.err, ErrKeywordsMissing) <=> apiCall.args.Keywords = ""
        /\ apiCall.args.Keywords = "" => apiCall.out.err = NewError(ErrKeywordsMissing)
        /\ apiCall.args.Keywords # "" =>
              /\ ~Is(apiCall.out.err, ErrRequestBuildFailed)
              /\ Len(apiCall.out.requests) = 1

\* C13 witness: a search with keywords and no optional argument (no filter,
\* start 0, count 0) was sent and returned without an error.
C13_Witness ==
    /\ SearchWithCredentials
    /\ apiCall.args = SearchArgs("a", << >>, 0, 0)
    /\ Len(apiCall.out.requests) = 1
    /\ apiCall.out.err = Nil

(***************************************************************************)
(* Claims about the fields of the resolved profile.                        *)
(***************************************************************************)
\* C14: in a returned profile every field whose source the payload does not
\* hold has its zero value. No entity of the payload carries a location, a
\* connection count or a picture, so LocationDetails, ConnectionInfo and
\* ProfilePicture are nil; the fields no entity carries are empty; a
\* collection without an entity of its kind is empty; and FullName is empty
\* when the anchor has neither name.
C14_AbsentSourceStaysZero ==
    \A c \in ReturnedProfile :
        LET p == ProfileOf(c)
            inc == apiResponse.Included
        IN  /\ p.LocationDetails = Nil
            /\ p.ConnectionInfo = Nil
            /\ p.ProfilePicture = Nil
            /\ p.Summary = "" /\ p.Industry = "" /\ p.Location = ""
            /\ p.BackgroundImageURL = "" /\ p.CreatorWebsite = ""
            /\ p.TempStatus = "" /\ p.TempStatusEmoji = ""
            /\ p.Certifications = << >>
            /\ ~p.IsVerified /\ ~p.IsCreator /\ ~p.IsPremium /\ ~p.IsMemorialized
            /\ IndicesOf(inc, IsPosition) = {} => p.Experience = << >>
            /\ IndicesOf(inc, IsEducation) = {} => p.Education = << >>
            /\ IndicesOf(inc, IsSkill) = {} => p.Skills = << >>
            /\ (AnchorOf(c).FirstName = "" /\ AnchorOf(c).LastName = "") => p.FullName = ""
            /\ AnchorOf(c).Headline = "" => p.Headline = ""

(***************************************************************************)
(* Claims about what the client's calls return and send.                   *)
(***************************************************************************)
\* A GetProfile or SearchProfiles call that has returned.
ClientReturned == (Finished("GetProfile") \/ Finished("SearchProfiles"))

\* C15: GetProfile and SearchProfiles return either a result or an error,
\* never both and never neither: the returned profile, or profile list, is
\* nil exactly when the returned error is not nil.
C15_ResultOrErrorNeverBoth ==
    ClientReturned => (apiCall.out.err # Nil <=> apiCall.out.value = Nil)

\* C15 witness: GetProfile received a 200 response whose payload holds no
\* anchor for the requested identifier, and returned an error and nil.
C15_Witness ==
    /\ GotProfileResponse
    /\ apiCall.id = "john"
    /\ apiCall.reply.body =
          BodyOf(<< RawProfile("urn:li:fsd_profile:1", "jane-doe", "Jane", "Doe", "Engineer") >>)
    /\ apiCall.out.err # Nil
    /\ ~Is(apiCall.out.err, ErrResponseParseFailed)
    /\ apiCall.out.value = Nil

\* A call whose input validation fails: a client without the li_at cookie or
\* without the CSRF token, or GetProfile with an empty identifier.
ValidationFails ==
    /\ ClientReturned
    /\ \/ apiCall.config.Auth.LiAtCookie = ""
       \/ apiCall.config.Auth.CSRFToken = ""
       \/ Finished("GetProfile") /\ apiCall.id = ""

\* C16: a call whose input validation fails returns an error and nothing
\* else, and has sent no request and waited for no reply; without
\* credentials the error is ErrAuthMissing.
C16_ValidationPrecedesTheRequest ==
    ValidationFails =>
        /\ apiCall.out.err # Nil
        /\ apiCall.out.value = Nil
        /\ apiCall.out.requests = << >>
        /\ apiCall.reply = NoReply
        /\ (apiCall.config.Auth.LiAtCookie = "" \/ apiCall.config.Auth.CSRFToken = "")
              => apiCall.out.err = NewError(ErrAuthMissing)

\* C16 witness: GetProfile with an empty identifier on a client with both
\* credentials returned an error without a round trip.
C16_Witness ==
    /\ Finished("GetProfile")
    /\ apiCall.id = ""
    /\ apiCall.config.Auth.LiAtCookie # "" /\ apiCall.config.Auth.CSRFToken # ""
    /\ apiCall.reply = NoReply
    /\ apiCall.out.err = NewError("publicIdentifier cannot be empty")
    /\ apiCall.out.requests = << >>

\* A call that sent its request and received a response: the round trip
\* succeeded and the body was read.
ResponseReceived ==
    /\ ClientReturned
    /\ apiCall.out.requests # << >>
    /\ apiCall.reply.kind = "response"

StatusSentinels == {ErrUnauthorized, ErrRateLimited, ErrRequestFailed}

\* C17: after a response is received, status 401 or 403 gives an error that
\* wraps ErrUnauthorized, 429 one that wraps ErrRateLimited, any other status
\* but 200 one that wraps ErrRequestFailed; a response that is not 200 gives
\* no result and is not decoded, and a 200 response gives none of the three
\* errors.
C17_StatusDecidesTheError ==
    ResponseReceived =>
        LET status == apiCall.reply.status
            err == apiCall.out.err
        IN  /\ status \in {401, 403} => Is(err, ErrUnauthorized)
            /\ status = 429 => Is(err, ErrRateLimited)
            /\ status \notin {200, 401, 403, 429} => Is(err, ErrRequestFailed)
            /\ status # 200 =>
                  /\ apiCall.out.value = Nil
                  /\ ~Is(err, ErrResponseParseFailed)
                  /\ Cardinality({ e \in StatusSentinels : Is(err, e) }) = 1
            /\ status = 200 => \A e \in StatusSentinels : ~Is(err, e)

\* C17 witness: SearchProfiles received a 429 response and returned an error
\* that wraps ErrRateLimited.
C17_Witness ==
    /\ ResponseReceived
    /\ Finished("SearchProfiles")
    /\ apiCall.reply.status = 429
    /\ Is(apiCall.out.err, ErrRateLimited)
    /\ apiCall.out.value = Nil

\* C18: every request a call sent carries the client's Config.UserAgent as
\* its User-Agent header, and NewConfig sets Config.UserAgent to the first
\* user agent argument when it is given and not empty, else to
\* DefaultUserAgent.
C18_UserAgentIsTheConfigured ==
    /\ RequestIssued =>
          apiCall.out.requests[1].userAgent = apiCall.config.UserAgent
    /\ (apiCall.fn = "NewConfig" /\ apiCall.out.err = Nil) =>
          Deref(apiCall.out.cfg).UserAgent =
              IF apiCall.userAgent # << >> /\ apiCall.userAgent[1] # ""
              THEN apiCall.userAgent[1]
              ELSE DefaultUserAgent

\* C19: the profiles of the list SearchProfiles returns have pairwise
\* different URNs.
C19_OneProfilePerURN ==
    (Finished("SearchProfiles") /\ apiCall.out.value # Nil) =>
        LET profiles == Deref(apiCall.out.value)
        IN  \A i, j \in DOMAIN profiles :
                i # j => profiles[i].URN # profiles[j].URN

(***************************************************************************)
(* Claims about concurrent calls.                                          *)
(***************************************************************************)
\* What a call returns when it runs alone.
Alone(c) ==
    CASE c.kind = "resolve" ->
            OutcomeOf(parseProfileFromAPIResponse(Memory(c.response, << >>), c.id))
      [] c.kind = "encode" ->
            buildGraphQLURL(VoyagerBaseURL, DefaultSearchQueryID, c.variables)
      [] c.kind = "encodeProfile" ->
            buildProfileGraphQLURL(VoyagerBaseURL, DefaultProfileQueryID, c.id)

\* C20: under every interleaving of the steps of concurrent resolve and
\* encoder calls on their own inputs, a call that has returned has returned
\* exactly what it returns when it runs alone.
C20_ConcurrentCallsReturnAsAlone ==
    \A p \in DOMAIN procs :
        procs[p].pc = "done" => procs[p].result = Alone(procs[p])

\* C20 witness: a resolve call and an encoder call, both started before
\* either finished, have both returned, the one a profile with a position
\* and the other a URL with two query parameters.
C20_Witness ==
    /\ DOMAIN procs = Procs
    /\ procs[1].kind = "resolve" /\ procs[1].pc = "done"
    /\ procs[1].result.err = Nil
    /\ Len(Deref(procs[1].result.profile).Experience) = 1
    /\ procs[2].kind = "encode" /\ procs[2].pc = "done"
    /\ Len(procs[2].variables.Query.QueryParameters) = 2
    /\ procs[2].result.err = Nil

(***************************************************************************)
(* Claims about termination.                                               *)
(***************************************************************************)
\* C21: every resolve call ends, with a profile or with an error and never
\* with both or neither, and at no point has taken more steps than the size
\* of the included array plus the nine statements outside the anchor scan,
\* each pass of a helper over included counting as one step; payloads whose
\* entities name one another by URN included.
C21_ResolveTerminatesWithinBound ==
    /\ [](\A p \in DOMAIN procs :
            procs[p].kind = "resolve" =>
                procs[p].steps <= Len(procs[p].response.Included) + 9)
    /\ \A p \in Procs :
            <>(procs[p].kind = "resolve" =>
                 /\ procs[p].pc = "done"
                 /\ (procs[p].result.profile = Nil) # (procs[p].result.err = Nil))

\* C21 witness: a resolve call on the payload whose position names the
\* profile and whose profile names the position has returned its profile,
\* and a resolve call on the same payload has returned the error.
C21_Witness ==
    /\ DOMAIN procs = Procs
    /\ \A p \in Procs :
          /\ procs[p].kind = "resolve" /\ procs[p].pc = "done"
          /\ Len(procs[p].response.Included) = 2
          /\ procs[p].response.Included[1].CompanyURN
                = procs[p].response.Included[2].EntityURN
          /\ procs[p].response.Included[2].TrackingURN
                = procs[p].response.Included[1].EntityURN
    /\ procs[1].result.err = Nil /\ procs[1].steps = 11
    /\ procs[2].result.profile = Nil /\ procs[2].steps = 3

(***************************************************************************)
(* Claims about the association of nested entities.                        *)
(***************************************************************************)
\* The URNs a profileURN argument may be: those of the payload's entities,
\* and one of no entity.
URNArguments ==
    { apiResponse.Included[i].EntityURN : i \in DOMAIN apiResponse.Included }
        \cup {"urn:li:fsd_profile:none"}

\* C22: every included Position, Education and skill entity is attached to
\* the returned profile, whatever its URN and whatever other Profile entities
\* the payload holds, and the three collections are what the three helpers
\* return for any profileURN argument.
C22_AllNestedEntitiesAttachToTheAnchor ==
    \A c \in ReturnedProfile :
        /\ \A i \in DOMAIN apiResponse.Included :
              LET item == apiResponse.Included[i] IN
              /\ IsPosition(item) =>
                    \E k \in DOMAIN ProfileOf(c).Experience :
                        ProfileOf(c).Experience[k] = ExperienceOf(item)
              /\ IsEducation(item) =>
                    \E k \in DOMAIN ProfileOf(c).Education :
                        ProfileOf(c).Education[k] = EducationOf(item)
              /\ IsSkill(item) =>
                    \E k \in DOMAIN ProfileOf(c).Skills :
                        ProfileOf(c).Skills[k] = SkillOf(item)
        /\ \A urn \in URNArguments :
              /\ ProfileOf(c).Experience = parseExperienceData(apiResponse, urn)
              /\ ProfileOf(c).Education = parseEducationData(apiResponse, urn)
              /\ ProfileOf(c).Skills = parseSkillsData(apiResponse, urn)

\* C22 witness: the payload holds two Profile entities and a position whose
\* URN ends unlike the anchor's, and the profile returned for the first
\* carries that position.
C22_Witness ==
    \E c \in ReturnedProfile :
        /\ calls[c].fn = "convert"
        /\ ProfileOf(c).URN = "urn:li:fsd_profile:1"
        /\ \E i \in DOMAIN apiResponse.Included :
              /\ apiResponse.Included[i].Type = EntityTypeProfile
              /\ apiResponse.Included[i].EntityURN = "urn:li:fsd_profile:2"
        /\ Len(ProfileOf(c).Experience) = 1
        /\ ProfileOf(c).Experience[1].EntityURN = "urn:li:fsd_profilePosition:2"

(***************************************************************************)
(* Claims about entities and fields outside the dispatched shapes.         *)
(***************************************************************************)
\* The discriminator of a raw entity, "" when it has none.
RawTypeOf(raw) ==
    LET S == { k \in DOMAIN raw.items : raw.items[k][1] = "$type" }
    IN  IF S = {} THEN "" ELSE raw.items[CHOOSE k \in S : TRUE][2].str

\* A raw entity of a kind the resolver does not dispatch on.
IsForeign(raw) ==
    /\ raw.kind = "object"
    /\ RawTypeOf(raw) \notin {EntityTypeProfile, EntityTypePosition, EntityTypeEducation}
    /\ ~Contains(RawTypeOf(raw), EntityTypeEndorsedSkill)

\* The raw entities of a body, and the body without its i-th entity.
RawIncluded(body) ==
    IF body.kind = "object" /\ Len(body.items) = 2 THEN body.items[2][2].items ELSE << >>

WithoutEntity(body, i) ==
    BodyOf([k \in 1..(Len(RawIncluded(body)) - 1) |->
                IF k < i THEN RawIncluded(body)[k] ELSE RawIncluded(body)[k + 1]])

\* C23 as stated: an entity of a kind the resolver does not dispatch on
\* causes no error and changes nothing: ParseFromJSON and GetProfile return
\* what they return for the payload without it.
C23_ForeignEntityChangesNothing ==
    /\ apiCall.fn = "ParseFromJSON" =>
          \A i \in DOMAIN RawIncluded(apiCall.jsonData) :
              IsForeign(RawIncluded(apiCall.jsonData)[i]) =>
                  apiCall.out = ParseFromJSON(WithoutEntity(apiCall.jsonData, i))
    /\ GotProfileResponse =>
          \A i \in DOMAIN RawIncluded(apiCall.reply.body) :
              IsForeign(RawIncluded(apiCall.reply.body)[i]) =>
                  apiCall.out = GetProfile(apiCall.config, apiCall.id,
                                    Response(200, WithoutEntity(apiCall.reply.body, i)))

(***************************************************************************)
(* Claims about the list SearchProfiles returns.                           *)
(***************************************************************************)
\* SearchProfiles sent its request and received a 200 response.
GotSearchResponse ==
    /\ Finished("SearchProfiles")
    /\ apiCall.out.requests # << >>
    /\ apiCall.reply.kind = "response"
    /\ apiCall.reply.status = 200

\* The value of the member of a raw entity named key, null when it has none.
RawField(raw, key) ==
    LET S == { k \in DOMAIN raw.items : raw.items[k][1] = key }
    IN  IF S = {} THEN JNull ELSE raw.items[CHOOSE k \in S : TRUE][2]

ResultTexts == {"title", "primarySubtitle", "secondarySubtitle"}

\* A body whose "data" member is empty or a cluster with numeric paging,
\* and whose entities carry each of the three texts as an object, as null,
\* or not at all.
ResultsDecodable(body) ==
    /\ body.kind = "object"
    /\ body.items[1][2] \in {JObj(<< >>), RawSearchData(JNum(0))}
    /\ \A i \in DOMAIN RawIncluded(body) :
          \A key \in ResultTexts :
              RawField(RawIncluded(body)[i], key).kind \in {"object", "null"}

\* The indices of the result entities that carry all three texts.
CompleteResults(body) ==
    { i \in DOMAIN RawIncluded(body) :
        /\ RawTypeOf(RawIncluded(body)[i]) = EntityTypeEntityResult
        /\ \A key \in ResultTexts : RawField(RawIncluded(body)[i], key).kind = "object" }

\* C24: on a 200 response whose entities are decodable and whose payload
\* gives "data" and "included" once each, SearchProfiles
\* returns no error and, in the order of included, one profile for each
\* result entity that carries title, primarySubtitle and secondarySubtitle,
\* with these as FullName, Headline and Location; a result entity lacking
\* one of them and an entity of another kind add no profile and no error.
C24_OneProfilePerCompleteResult ==
    (GotSearchResponse /\ ResultsDecodable(apiCall.reply.body)
        /\ Len(apiCall.reply.body.items) = 2) =>
        LET raw == RawIncluded(apiCall.reply.body)
            complete == CompleteResults(apiCall.reply.body)
            Text(i, key) == RawField(RawField(raw[i], key), "text").str
        IN  /\ apiCall.out.err = Nil
            /\ apiCall.out.value # Nil
            /\ Len(Deref(apiCall.out.value)) = Cardinality(complete)
            /\ \A k \in 1..Cardinality(complete) :
                  LET profile == Deref(apiCall.out.value)[k]
                      i == NthOf(complete, k)
                  IN  /\ profile.FullName = Text(i, "title")
                      /\ profile.Headline = Text(i, "primarySubtitle")
                      /\ profile.Location = Text(i, "secondarySubtitle")

\* C24 witness: of three result entities the first lacks its
\* secondarySubtitle, and the list returned holds the other two in order.
C24_Witness ==
    /\ GotSearchResponse
    /\ Len(RawIncluded(apiCall.reply.body)) = 3
    /\ CompleteResults(apiCall.reply.body) = {2, 3}
    /\ apiCall.out.err = Nil
    /\ Len(Deref(apiCall.out.value)) = 2
    /\ Deref(apiCall.out.value)[1].FullName = "Jane D."
    /\ Deref(apiCall.out.value)[2].FullName = "Jane Doe"
    /\ Deref(apiCall.out.value)[2].Location = "Berlin"

\* C25: on a 200 response that decodes, gives "data" and "included" once
\* each and holds no complete result entity,
\* SearchProfiles returns an empty list that is not nil and a nil error; and
\* no call of the client returns ErrNoProfilesFound.
C25_NoProfilesIsAnEmptyList ==
    /\ (GotSearchResponse /\ ResultsDecodable(apiCall.reply.body)
            /\ Len(apiCall.reply.body.items) = 2
            /\ CompleteResults(apiCall.reply.body) = {})
          => /\ apiCall.out.value = Ptr(<< >>)
             /\ apiCall.out.err = Nil
    /\ ClientReturned => ~Is(apiCall.out.err, ErrNoProfilesFound)

\* C25 witness: a search was answered 200 with a payload whose included
\* array is empty, and returned the empty list and no error.
C25_Witness ==
    /\ GotSearchResponse
    /\ apiCall.reply.body = BodyOf(<< >>)
    /\ apiCall.out = Returns(Ptr(<< >>), Nil, apiCall.out.requests)

(***************************************************************************)
(* Claims about malformed payloads and about the requests sent.            *)
(***************************************************************************)
\* A body that is no JSON text, or whose "data" member holds a number for
\* its inner object, or that holds an entity with a Flexible Text of the
\* wrong shape, with an object where the wire shape has a string, or with a
\* date whose "$type" is no string.
MalformedProfileBody(body) ==
    \/ body.kind = "invalid"
    \/ HasWrongShapeField(body)
    \/ body.kind = "object" /\ RawField(body.items[1][2], "data").kind = "number"
    \/ \E i \in DOMAIN RawIncluded(body) :
          \/ RawField(RawIncluded(body)[i], "description").kind = "object"
          \/ LET range == RawField(RawIncluded(body)[i], "dateRange") IN
             /\ range.kind = "object"
             /\ RawField(range, "start").kind = "object"
             /\ RawField(RawField(range, "start"), "$type").kind \notin {"string", "null"}

\* C26: GetProfile and SearchProfiles, answered 200 with a body that cannot
\* be decoded into the wire shape, return no result and an error that wraps
\* ErrResponseParseFailed; ParseFromJSON on such a body returns no profile
\* and the error of the unmarshalling.
C26_MalformedPayloadIsSurfaced ==
    /\ (GotProfileResponse /\ MalformedProfileBody(apiCall.reply.body))
          => /\ apiCall.out.value = Nil
             /\ Is(apiCall.out.err, ErrResponseParseFailed)
    /\ (GotSearchResponse /\ ~ResultsDecodable(apiCall.reply.body))
          => /\ apiCall.out.value = Nil
             /\ Is(apiCall.out.err, ErrResponseParseFailed)
    /\ (apiCall.fn = "ParseFromJSON" /\ MalformedProfileBody(apiCall.jsonData))
          => /\ apiCall.out.profile = Nil
             /\ apiCall.out.err # Nil
             /\ apiCall.out.err[1] = "failed to unmarshal JSON"

\* C26 witness: a search was answered 200 with a result entity whose title
\* is a bare string, and failed with ErrResponseParseFailed.
C26_Witness ==
    /\ GotSearchResponse
    /\ Len(RawIncluded(apiCall.reply.body)) = 1
    /\ RawField(RawIncluded(apiCall.reply.body)[1], "title") = JStr("Jane Doe")
    /\ apiCall.out.value = Nil
    /\ Is(apiCall.out.err, ErrResponseParseFailed)

C28_ResolveWritesOnlyItsProfile ==
    [][/\ apiResponse' = apiResponse
       /\ Len(heap') \in {Len(heap), Len(heap) + 1}
       /\ \A k \in DOMAIN heap : heap'[k] = heap[k]
       /\ \A c \in Calls :
            /\ calls[c].fn # "none" => calls'[c] = calls[c]
            /\ (calls[c].fn = "none" /\ calls'[c].fn # "none") =>
                    IF calls'[c].ptr = Nil
                    THEN calls'[c].out.profile = Nil
                    ELSE /\ Len(heap') = Len(heap) + 1
                         /\ calls'[c].ptr = Ptr([region |-> "Heap", i |-> Len(heap')])
                         /\ calls'[c].out.profile = Ptr(heap'[Len(heap')])
            /\ (calls[c].fn = "none" /\ calls'[c].fn = "convert"
                    /\ calls'[c].out.profile # Nil)
                => LET i == AnchorIndex(apiResponse, publicIdentifier)
                       profile == Deref(calls'[c].out.profile)
                   IN  /\ profile.FirstName
                            = sanitizeTextString(apiResponse.Included[i].FirstName)
                       /\ profile.LastName
                            = sanitizeTextString(apiResponse.Included[i].LastName)
                       /\ profile.Headline
                            = sanitizeTextString(apiResponse.Included[i].Headline)
                       /\ apiResponse'.Included[i] = apiResponse.Included[i]]_vars

\* C28 witness: two convert calls returned; each profile in memory has the
\* sanitised names and headline, and the anchor in the payload still carries
\* the leading and trailing whitespace and the NUL.
C28_Witness ==
    /\ \A c \in Calls :
          /\ calls[c].fn = "convert"
          /\ calls[c].ptr # Nil
          /\ Load(Memory(apiResponse, heap), calls[c].ptr).FirstName = "John"
          /\ Load(Memory(apiResponse, heap), calls[c].ptr).LastName = "Roe"
          /\ Load(Memory(apiResponse, heap), calls[c].ptr).Headline = "CEO"
    /\ Len(heap) = 2
    /\ \E i \in DOMAIN apiResponse.Included :
          /\ apiResponse.Included[i].FirstName = " John "
          /\ apiResponse.Included[i].LastName = "Roe" \o NUL \o " "
          /\ apiResponse.Included[i].Headline = " CEO"

(***************************************************************************)
(* Claims about ParseFromJSON and about the returned names.                *)
(***************************************************************************)
\* C29: on a decoded payload ParseFromJSON returns what
\* convertAPIResponseToLinkedInProfile returns for the identifier of the
\* first Profile entity that has one, and it returns an error and no profile
\* when the payload holds no such entity.
C29_ParseFromJSONIsConvertOnFirstIdentified ==
    \A c \in Returned :
        calls[c].fn = "fromJSON" =>
            IF FirstIdentified(apiResponse.Included) = ""
            THEN /\ calls[c].out.profile = Nil
                 /\ calls[c].out.err # Nil
            ELSE calls[c].out =
                    OutcomeOf(convertAPIResponseToLinkedInProfile(
                        Memory(apiResponse, << >>), FirstIdentified(apiResponse.Included)))

\* C29 witness: the payload's first Profile entity has no identifier and its
\* second is "john"; ParseFromJSON and a convert call for "john" returned
\* the same profile.
C29_Witness ==
    /\ publicIdentifier = "john"
    /\ Len(apiResponse.Included) >= 2
    /\ apiResponse.Included[1].Type = EntityTypeProfile
    /\ apiResponse.Included[1].PublicIdentifier = ""
    /\ apiResponse.Included[2].PublicIdentifier = "john"
    /\ calls[1].fn = "fromJSON" /\ calls[2].fn = "convert"
    /\ calls[1].out.profile # Nil
    /\ calls[1].out = calls[2].out

\* C30: in a profile GetProfile returns from
\* convertAPIResponseToLinkedInProfile, when FirstName and LastName are both
\* non-empty FullName is FirstName, one space, LastName; and FirstName,
\* LastName, FullName and Headline have no leading or trailing whitespace
\* and hold no NUL.
C30_ReturnedNamesAreConsistent ==
    (GotProfileResponse /\ apiCall.out.value # Nil) =>
        LET profile == Deref(apiCall.out.value) IN
        /\ (profile.FirstName # "" /\ profile.LastName # "")
              => profile.FullName = profile.FirstName \o " " \o profile.LastName
        /\ \A s \in {profile.FirstName, profile.LastName,
                     profile.FullName, profile.Headline} :
              /\ ~Contains(s, NUL)
              /\ s # "" => ~IsSpace(FirstChar(s)) /\ ~IsSpace(LastChar(s))

====
